---- MODULE Spec2Model ----
(***************************************************************************)
(* Model of the game server of src/server.js (the consolidated iteration,  *)
(* lines 610-1377): the in-memory dictionary gameStates, the matches       *)
(* collection the handlers read room membership from, and the socket       *)
(* handlers createRoom, joinRoom, startRoundRequest, playerBet and         *)
(* playerCardPlayed with processPlayedCards and compareCards.              *)
(*                                                                         *)
(* Conventions.  A JavaScript object used as a dictionary is a function    *)
(* whose DOMAIN is its key set.  null/undefined identities are NoId, a     *)
(* null card is NoCard, the unset bet "" is NoBet (= <<>>) and a declared  *)
(* bet b is <<b>>.  Card values are the strings "2".."7", "Fante",         *)
(* "Cavallo", "Re", "Asso" (the keys of valuePoints).  Hand indexes are    *)
(* the 0-based cardIndex of the payload; hand[cardIndex] of the code is    *)
(* hand[cardIndex + 1] here.                                               *)
(***************************************************************************)
EXTENDS Integers, Sequences, FiniteSets, TLC

VARIABLES
    matches,      \* matchesCollection: sequence of room documents
    sockRoom,     \* socket.data.roomCode of every socket ("" when unset)
    gameStates,   \* gameStates: roomCode -> game
    pendingDeals, \* startRoundRequest continuations suspended at the findOne of line 1120
    detachedDeals, \* per room, the games such continuations still hold after gameStates dropped them
    readySenders, \* per room, the sockets whose startRoundRequest the ready counter has counted
                  \* since it was last 0 or, from the threshold to the deal, that triggered the deal
    emitted,      \* the events emitted by the handler that ran last
    observing,    \* whether the run records the emitted events (fixed by Init)
    cmp,          \* compareCards applied to a drawn pair of cards (specification SpecCompare)
    scoring,      \* the scoring of lines 721-732 applied to drawn values (specification SpecScore)
    disconnectionTimers, \* disconnectionTimers: socket id -> room of its pending setTimeout
    connected,    \* the socket ids with a live connection
    rebound,      \* the socket ids whose client has come back on a connection with a new id
    timeouts,     \* the setTimeout callbacks of line 1318 still to run, oldest first
    onlinePlayers, \* onlinePlayersCollection: the socket ids with a document
    pendingJoins, \* joinRoom continuations suspended at the updateOne of line 1059
    snapshots,    \* the gameState field the saves have set on the room documents
    gatewayUp,    \* whether a save of the game state succeeds (fixed or flipped by the environment)
    pendingInvitations, \* pendingInvitations: the entries in key order, one per inviter
    invitationTimeouts, \* the setTimeout callbacks of line 928 still to run, by timeoutId
    pendingSends, \* sendInvitation continuations suspended at the findOne of lines 912-913
    invitationLog \* per invitation (its timeoutId), the handlers that ended it, in order

pureVars == <<cmp, scoring>>
sessionVars == <<disconnectionTimers, connected, rebound, timeouts, onlinePlayers>>
asyncVars == <<pendingJoins, snapshots, gatewayUp>>
inviteVars == <<pendingInvitations, invitationTimeouts, pendingSends, invitationLog>>

vars == <<matches, sockRoom, gameStates, pendingDeals, detachedDeals, readySenders, emitted,
          observing, cmp, scoring, disconnectionTimers, connected, rebound, timeouts,
          onlinePlayers, pendingJoins, snapshots, gatewayUp, pendingInvitations,
          invitationTimeouts, pendingSends, invitationLog>>

(***************************************************************************)
(* Bounds of the model and constants of the program.                       *)
(***************************************************************************)
MaxRound == 2
MaxWins == 3

RoundCap == 10
ReadyThreshold == 2
MinRoomPlayers == 2

Sockets == {"s1", "s2", "s3"}
Creator == "s1"
Joiners == {"s2"}
RoomCodes == {"1000"}
Bets == {0, 1}
Seeds == {1, 3}

NoId == ""
NoBet == <<>>
NoCard == [suit |-> "", value |-> ""]

(***************************************************************************)
(* Cards, deck and comparison.                                             *)
(***************************************************************************)
suits == <<"Denari", "Spade", "Bastoni", "Coppe">>
values == <<"2", "3", "4", "5", "6", "7", "Fante", "Cavallo", "Re", "Asso">>

\* The nested loops of lines 1129-1134: suit-major, 40 cards.
FreshDeck ==
    [i \in 1..(Len(suits) * Len(values)) |->
        [suit |-> suits[((i - 1) \div Len(values)) + 1],
         value |-> values[((i - 1) % Len(values)) + 1]]]

DeckCards == {FreshDeck[i] : i \in DOMAIN FreshDeck}

valuePoints ==
    ("2" :> 2) @@ ("3" :> 3) @@ ("4" :> 4) @@ ("5" :> 5) @@ ("6" :> 6) @@ ("7" :> 7)
    @@ ("Fante" :> 8) @@ ("Cavallo" :> 9) @@ ("Re" :> 10) @@ ("Asso" :> 11)

suitStrength ==
    ("Denari" :> 4) @@ ("Spade" :> 3) @@ ("Bastoni" :> 2) @@ ("Coppe" :> 1)

compareCardsRankOnly(c1, c2) ==
    valuePoints[c1.value] > valuePoints[c2.value]

compareCardsLowRankWins(c1, c2) ==
    LET v1 == valuePoints[c1.value]
        v2 == valuePoints[c2.value]
    IN  IF v1 = v2
        THEN suitStrength[c1.suit] > suitStrength[c2.suit]
        ELSE v1 < v2

compareCards(c1, c2) ==
    LET v1 == valuePoints[c1.value]
        v2 == valuePoints[c2.value]
    IN  IF v1 = v2
        THEN suitStrength[c1.suit] > suitStrength[c2.suit]
        ELSE v1 > v2

\* deck.sort(() => Math.random() - 0.5): some permutation of the deck.  The
\* model draws it from the family indexed by Seeds: position i of the
\* shuffled deck holds the card number ShufflePos(seed, i) of the fresh deck.
ShufflePos(seed, i) ==
    LET j == (i + seed) % Len(FreshDeck)
    IN  (j % Len(suits)) * Len(values) + (j \div Len(suits))

shuffle(deck, seed) ==
    [i \in DOMAIN deck |-> deck[ShufflePos(seed, i - 1) + 1]]

\* deck.splice(0, n): the removed prefix and what is left of the deck.
spliceNoRemove(deck, n) ==
    [removed |-> SubSeq(deck, 1, n), rest |-> deck]

splice(deck, n) ==
    [removed |-> SubSeq(deck, 1, n), rest |-> SubSeq(deck, n + 1, Len(deck))]

(***************************************************************************)
(* Dictionaries and the matches collection.                                *)
(***************************************************************************)
Put(f, k, v) == [x \in DOMAIN f \cup {k} |-> IF x = k THEN v ELSE f[x]]
Delete(f, k) == [x \in DOMAIN f \ {k} |-> f[x]]
Range(s) == {s[i] : i \in DOMAIN s}

\* matchesCollection.findOne({ roomCode }): the first document with the code,
\* as its index in the collection, 0 when there is none.
findOne(roomCode) ==
    IF \E i \in DOMAIN matches : matches[i].roomCode = roomCode
    THEN CHOOSE i \in DOMAIN matches :
            /\ matches[i].roomCode = roomCode
            /\ \A j \in DOMAIN matches : matches[j].roomCode = roomCode => i <= j
    ELSE 0

RoomPlayers(roomCode) ==
    IF findOne(roomCode) = 0 THEN <<>> ELSE matches[findOne(roomCode)].players

\* const pendingInvitations = {} (line 627), and no invitation sent so far.
NoInvitations ==
    /\ pendingInvitations = <<>>
    /\ invitationTimeouts = <<>>
    /\ pendingSends = {}
    /\ invitationLog = <<>>

(***************************************************************************)
(* Events.                                                                 *)
(***************************************************************************)
GameError(to, reason) == [event |-> "gameError", to |-> to, reason |-> reason]
Event(name, to) == [event |-> name, to |-> to]
Emit(events) == emitted' = IF observing THEN events ELSE <<>>

(***************************************************************************)
(* Game objects.                                                           *)
(***************************************************************************)
\* The object of lines 1109-1114.
NewGame ==
    [round |-> 0, order |-> <<>>, players |-> <<>>, nextRoundReadyCount |-> 0,
     lastRoundWinner |-> NoId, firstToReveal |-> NoId]

\* Object.keys(game.players)
PlayerIds(game) == game.order

\* playerIds.find(id => id !== me)
FindOther(ids, me) ==
    IF \E i \in DOMAIN ids : ids[i] # me
    THEN ids[CHOOSE i \in DOMAIN ids :
                /\ ids[i] # me
                /\ \A j \in DOMAIN ids : ids[j] # me => i <= j]
    ELSE NoId

HasCardAt(hand, cardIndex) == (cardIndex + 1) \in DOMAIN hand
CardAt(hand, cardIndex) == hand[cardIndex + 1]

Abs(x) == IF x < 0 THEN -x ELSE x
\* Number(bet) as the arithmetic of lines 724 and 730 coerces it: "" is 0.
ToNumber(bet) == IF bet = NoBet THEN 0 ELSE bet[1]

(***************************************************************************)
(* The deal of startRoundRequest, lines 1125-1169.                         *)
(***************************************************************************)
Unplayed(cards) ==
    [i \in DOMAIN cards |->
        [suit |-> cards[i].suit, value |-> cards[i].value, played |-> FALSE]]

PreviousScoreZero(game, id) == 0

\* score: game.players[id]?.score || 0
PreviousScore(game, id) ==
    IF id \in DOMAIN game.players THEN game.players[id].score ELSE 0

NewPlayer(game, id, hand) ==
    [hand |-> hand, bet |-> NoBet, playedCard |-> NoCard,
     score |-> PreviousScore(game, id), currentRoundWins |-> 0,
     revealedCardsCount |-> 0]

FirstPlayerForThisRoundCoinOnly(game, player1, player2, coin) ==
    IF coin THEN player1 ELSE player2

\* lines 1136-1141; coin is the outcome of Math.random() < 0.5
FirstPlayerForThisRoundWinnerOnly(game, player1, player2, coin) == game.lastRoundWinner

FirstPlayerForThisRound(game, player1, player2, coin) ==
    IF game.lastRoundWinner # NoId
    THEN game.lastRoundWinner
    ELSE IF coin THEN player1 ELSE player2

Deal(game, roomPlayers, seed, coin) ==
    LET player1 == roomPlayers[1]
        player2 == roomPlayers[2]
        round == game.round + 1
        deck == shuffle(FreshDeck, seed)
        cut1 == splice(deck, round)
        p1Cards == Unplayed(cut1.removed)
        cut2 == splice(cut1.rest, round)
        p2Cards == Unplayed(cut2.removed)
    IN  [game EXCEPT
            !.round = round,
            !.order = IF player1 = player2 THEN <<player1>> ELSE <<player1, player2>>,
            !.players = Put(Put(<<>>, player1, NewPlayer(game, player1, p1Cards)),
                            player2, NewPlayer(game, player2, p2Cards)),
            !.firstToReveal = FirstPlayerForThisRound(game, player1, player2, coin),
            !.lastRoundWinner = NoId]

StartRoundData(game, roomPlayers) ==
    <<[event |-> "startRoundData", to |-> roomPlayers[1], round |-> game.round,
       firstToReveal |-> game.firstToReveal],
      [event |-> "startRoundData", to |-> roomPlayers[2], round |-> game.round,
       firstToReveal |-> game.firstToReveal]>>

(***************************************************************************)
(* processPlayedCards, lines 681-815, for a game whose two players both    *)
(* have a playedCard.  The result is the game after it, the events it      *)
(* emits and whether it deleted gameStates[roomCode].                      *)
(***************************************************************************)
SettledScoreFlatBonus(player, wins) ==
    IF player.bet # NoBet /\ wins = player.bet[1]
    THEN player.score + 10
    ELSE player.score - Abs(wins - ToNumber(player.bet))

\* lines 721-732: the score after the round
SettledScore(player, wins) ==
    IF player.bet # NoBet /\ wins = player.bet[1]
    THEN player.score + (10 + player.bet[1])
    ELSE player.score - Abs(wins - ToNumber(player.bet))

RoundIsOverAfterAnyTrick(game, player1, player2) ==
    /\ player1.revealedCardsCount >= 1
    /\ player2.revealedCardsCount >= 1

RoundIsOverOffByOne(game, player1, player2) ==
    /\ player1.revealedCardsCount = game.round + 1
    /\ player2.revealedCardsCount = game.round + 1

\* line 720
RoundIsOver(game, player1, player2) ==
    /\ player1.revealedCardsCount = game.round
    /\ player2.revealedCardsCount = game.round

GameIsOverNever(game) == FALSE

\* line 772
GameIsOver(game) == game.round >= RoundCap

WinsAfterHandForAll(player, wonHand) ==
    player.currentRoundWins + 1

\* lines 698-702: currentRoundWins++ for the winner of the hand
WinsAfterHand(player, wonHand) ==
    player.currentRoundWins + (IF wonHand THEN 1 ELSE 0)

processPlayedCards(roomCode, game) ==
    LET playerIds == PlayerIds(game)
        player1Id == playerIds[1]
        player2Id == playerIds[2]
        player1 == game.players[player1Id]
        player2 == game.players[player2Id]
        card1 == player1.playedCard
        card2 == player2.playedCard
        player1WinsHand == compareCards(card1, card2)
        handWinnerId == IF player1WinsHand THEN player1Id ELSE player2Id
        wins1 == WinsAfterHand(player1, player1WinsHand)
        wins2 == WinsAfterHand(player2, ~player1WinsHand)
        handResult ==
            [event |-> "handResult", to |-> roomCode, winnerId |-> handWinnerId,
             player1Card |-> card1, player2Card |-> card2,
             player1Id |-> player1Id, player2Id |-> player2Id,
             player1Wins |-> wins1, player2Wins |-> wins2]
        score1 == SettledScore(player1, wins1)
        score2 == SettledScore(player2, wins2)
        roundFinished(to) ==
            [event |-> "roundFinished", to |-> to,
             player1Score |-> score1, player2Score |-> score2,
             player1Wins |-> wins1, player2Wins |-> wins2,
             player1Id |-> player1Id, player2Id |-> player2Id,
             player1Bet |-> player1.bet, player2Bet |-> player2.bet,
             currentRound |-> game.round, firstToReveal |-> handWinnerId]
        nextHand(to) ==
            [event |-> "nextHand", to |-> to, firstToReveal |-> handWinnerId,
             player1Wins |-> wins1, player2Wins |-> wins2]
        gameOver ==
            [event |-> "gameOver", to |-> roomCode,
             finalScores |-> Put(Put(<<>>, player1Id, score1), player2Id, score2)]
    IN  IF RoundIsOver(game, player1, player2)
        THEN [game |->
                [game EXCEPT
                    !.firstToReveal = handWinnerId,
                    !.lastRoundWinner = handWinnerId,
                    !.players[player1Id] =
                        [player1 EXCEPT !.playedCard = NoCard, !.score = score1,
                            !.bet = NoBet, !.currentRoundWins = 0,
                            !.revealedCardsCount = 0],
                    !.players[player2Id] =
                        [player2 EXCEPT !.playedCard = NoCard, !.score = score2,
                            !.bet = NoBet, !.currentRoundWins = 0,
                            !.revealedCardsCount = 0]],
              events |->
                <<handResult, roundFinished(player1Id), roundFinished(player2Id)>>
                \o (IF GameIsOver(game) THEN <<gameOver>> ELSE <<>>),
              deleted |-> GameIsOver(game)]
        ELSE [game |->
                [game EXCEPT
                    !.firstToReveal = handWinnerId,
                    !.players[player1Id] =
                        [player1 EXCEPT !.playedCard = NoCard,
                            !.currentRoundWins = wins1],
                    !.players[player2Id] =
                        [player2 EXCEPT !.playedCard = NoCard,
                            !.currentRoundWins = wins2]],
              events |-> <<handResult, nextHand(player1Id), nextHand(player2Id)>>,
              deleted |-> FALSE]

(***************************************************************************)
(* The save of the game state that ends processPlayedCards (lines 803-814) *)
(* and the handlers startRoundRequest (1192-1204) and playerCardPlayed     *)
(* (1281-1292): updateOne sets the field gameState of the room's document; *)
(* a failure is caught and logged.                                         *)
(***************************************************************************)
SaveOrBlock(roomCode, game) ==
    /\ gatewayUp
    /\ snapshots' = IF findOne(roomCode) # 0
                    THEN Put(snapshots, roomCode, game)
                    ELSE snapshots

Save(roomCode, game) ==
    snapshots' = IF gatewayUp /\ findOne(roomCode) # 0
                 THEN Put(snapshots, roomCode, game)
                 ELSE snapshots

(***************************************************************************)
(* createRoom, lines 1030-1051.  roomCode is the draw of line 1031, which  *)
(* is not compared with the codes in use; roomSize is stored as it came.   *)
(***************************************************************************)
\* The answer a handler gives through its callback.
Callback(to, success, error) ==
    [event |-> "callback", to |-> to, success |-> success, error |-> error]

CreateRoom(s, roomSize, roomCode) ==
    /\ matches' = Append(matches,
            [roomCode |-> roomCode, players |-> <<s>>, roomSize |-> roomSize])
    /\ sockRoom' = [sockRoom EXCEPT ![s] = roomCode]
    /\ Emit(<<Callback(s, TRUE, "")>>)
    /\ UNCHANGED <<gameStates, pendingDeals, detachedDeals, readySenders, inviteVars, observing,
                   pureVars, sessionVars, asyncVars>>

(***************************************************************************)
(* joinRoom, lines 1054-1101.  JoinRoom is the handler run without another *)
(* handler in between; JoinRoomRead and JoinRoomPush are its two parts,    *)
(* before and after the updateOne of line 1059 is applied.                 *)
(***************************************************************************)
\* A roomSize that was not given (undefined): no length is >= or === to it.
NoSize == -1

\* The answer of joinRoom's callback: lines 1056-1057.
JoinVerdict(roomCode) ==
    LET m == findOne(roomCode)
    IN  IF m = 0 THEN "RoomNotFound"
        ELSE IF matches[m].roomSize # NoSize
                /\ Len(matches[m].players) >= matches[m].roomSize THEN "RoomFull"
        ELSE "ok"

\* The error text of the callback, lines 1056-1057.
JoinError(verdict) ==
    IF verdict = "RoomNotFound" THEN "Stanza non trovata" ELSE "Stanza piena"

\* lines 1059-1093, from the $push on.  Without a document the $push does
\* nothing and updatedMatch is null: the catch of line 1094 answers.
Pushed(s, roomCode) ==
    IF findOne(roomCode) = 0 THEN matches
    ELSE [matches EXCEPT ![findOne(roomCode)].players = Append(@, s)]

JoinEvents(s, roomCode) ==
    IF findOne(roomCode) = 0
    THEN <<GameError(s, "Errore durante l'unione alla stanza."),
           Callback(s, FALSE, "Errore unione stanza")>>
    ELSE <<Event("playerJoined", roomCode)>>
         \o (IF Len(RoomPlayers(roomCode)) + 1 = matches[findOne(roomCode)].roomSize
             THEN <<Event("allPlayersReady", roomCode)>> ELSE <<>>)
         \o <<Callback(s, TRUE, "")>>

JoinRoom(s, roomCode) ==
    /\ IF JoinVerdict(roomCode) = "ok"
       THEN /\ matches' = Pushed(s, roomCode)
            /\ sockRoom' = [sockRoom EXCEPT ![s] = roomCode]
            /\ Emit(JoinEvents(s, roomCode))
       ELSE /\ Emit(<<Callback(s, FALSE, JoinError(JoinVerdict(roomCode)))>>)
            /\ UNCHANGED <<matches, sockRoom>>
    /\ UNCHANGED <<gameStates, pendingDeals, detachedDeals, readySenders, inviteVars, observing,
                   pureVars, sessionVars, asyncVars>>

\* lines 1055-1059: the room is read and checked, the $push is sent.
JoinRoomRead(s, roomCode) ==
    /\ <<s, roomCode>> \notin pendingJoins
    /\ IF JoinVerdict(roomCode) = "ok"
       THEN /\ pendingJoins' = pendingJoins \cup {<<s, roomCode>>}
            /\ Emit(<<>>)
       ELSE /\ Emit(<<Callback(s, FALSE, JoinError(JoinVerdict(roomCode)))>>)
            /\ UNCHANGED pendingJoins
    /\ UNCHANGED <<matches, sockRoom, gameStates, pendingDeals, detachedDeals, readySenders,
                   inviteVars, observing, pureVars, sessionVars, snapshots, gatewayUp>>

\* lines 1059-1093: the $push is applied and the handler runs to its end.
JoinRoomPush(s, roomCode) ==
    /\ <<s, roomCode>> \in pendingJoins
    /\ pendingJoins' = pendingJoins \ {<<s, roomCode>>}
    /\ matches' = Pushed(s, roomCode)
    /\ sockRoom' = [sockRoom EXCEPT ![s] = roomCode]
    /\ Emit(JoinEvents(s, roomCode))
    /\ UNCHANGED <<gameStates, pendingDeals, detachedDeals, readySenders, inviteVars, observing,
                   pureVars, sessionVars, snapshots, gatewayUp>>

(***************************************************************************)
(* startRoundRequest, lines 1104-1205.  The handler runs to the await of   *)
(* line 1120 (StartRoundRequest); the deal is the continuation resumed     *)
(* when findOne answers (DealComplete), and other handlers run in between. *)
(***************************************************************************)
\* lines 1107-1117: the game, created when missing, with its counter raised
ReadyCounted(roomCode) ==
    LET game == IF roomCode \in DOMAIN gameStates
                THEN gameStates[roomCode] ELSE NewGame
    IN  [game EXCEPT !.nextRoundReadyCount = @ + 1]

StartRoundRequestUpTo(s, roundLimit, pendingLimit) ==
    LET roomCode == sockRoom[s]
        game == ReadyCounted(roomCode)
        otherPlayers == SelectSeq(RoomPlayers(roomCode), LAMBDA p : p # s)
    IN  IF roomCode = NoId
        THEN /\ Emit(<<>>)
             /\ UNCHANGED <<matches, sockRoom, gameStates, pendingDeals, detachedDeals,
                            readySenders, inviteVars, observing, pureVars, sessionVars, asyncVars>>
        ELSE /\ readySenders' =
                    [readySenders EXCEPT ![roomCode] =
                        IF game.nextRoundReadyCount = 1 THEN {s} ELSE @ \cup {s}]
             /\ IF game.nextRoundReadyCount = ReadyThreshold
                THEN /\ game.round + pendingDeals[roomCode] < roundLimit
                     /\ pendingDeals[roomCode] < pendingLimit
                     /\ gameStates' = Put(gameStates, roomCode,
                            [game EXCEPT !.nextRoundReadyCount = 0])
                     /\ pendingDeals' = [pendingDeals EXCEPT ![roomCode] = @ + 1]
                     /\ Emit(<<>>)
                     /\ UNCHANGED snapshots
                ELSE /\ gameStates' = Put(gameStates, roomCode, game)
                     /\ Emit(<<[event |-> "waitingForOpponentReady", to |-> s,
                                forPlayer |-> "self"]>>
                             \o (IF otherPlayers # <<>>
                                 THEN <<[event |-> "waitingForOpponentReady",
                                         to |-> otherPlayers[1],
                                         forPlayer |-> "opponent"]>>
                                 ELSE <<>>))
                     /\ Save(roomCode, game)
                     /\ UNCHANGED pendingDeals
             /\ UNCHANGED <<matches, sockRoom, detachedDeals, inviteVars, observing, pureVars, sessionVars,
                            pendingJoins, gatewayUp>>

StartRoundRequest(s) == StartRoundRequestUpTo(s, MaxRound, MaxRound)

\* lines 1120-1184, for a continuation whose game is the object gameStates
\* holds for the room.
DealComplete(roomCode, seed, coin) ==
    /\ pendingDeals[roomCode] > 0
    /\ roomCode \in DOMAIN gameStates
    /\ pendingDeals' = [pendingDeals EXCEPT ![roomCode] = @ - 1]
    /\ IF findOne(roomCode) = 0 \/ Len(RoomPlayers(roomCode)) < MinRoomPlayers
       THEN /\ Emit(<<>>)
            /\ UNCHANGED <<gameStates, snapshots>>
       ELSE LET game == Deal(gameStates[roomCode], RoomPlayers(roomCode), seed, coin)
            IN  /\ gameStates' = [gameStates EXCEPT ![roomCode] = game]
                /\ Emit(StartRoundData(game, RoomPlayers(roomCode)))
                /\ Save(roomCode, game)
    /\ readySenders' =
            [readySenders EXCEPT ![roomCode] =
                IF gameStates[roomCode].nextRoundReadyCount = 0 /\ pendingDeals[roomCode] = 1
                THEN {} ELSE @]
    /\ UNCHANGED <<matches, sockRoom, detachedDeals, inviteVars, observing, pureVars, sessionVars,
                   pendingJoins, gatewayUp>>

\* lines 1120-1184, for a continuation whose game was deleted from gameStates
\* at game over (line 783) while it was suspended: it deals into the object
\* it still holds, which the other continuations suspended with it hold too,
\* and sends startRoundData; gameStates is not touched.
DealDetached(roomCode, seed, coin) ==
    /\ detachedDeals[roomCode] # <<>>
    /\ IF findOne(roomCode) = 0 \/ Len(RoomPlayers(roomCode)) < MinRoomPlayers
       THEN /\ Emit(<<>>)
            /\ detachedDeals' = [detachedDeals EXCEPT ![roomCode] = Tail(@)]
            /\ UNCHANGED snapshots
       ELSE LET game == Deal(Head(detachedDeals[roomCode]), RoomPlayers(roomCode),
                             seed, coin)
            IN  /\ Emit(StartRoundData(game, RoomPlayers(roomCode)))
                /\ detachedDeals' =
                        [detachedDeals EXCEPT ![roomCode] =
                            [i \in 1 .. Len(@) - 1 |-> game]]
                /\ Save(roomCode, game)
    /\ UNCHANGED <<matches, sockRoom, gameStates, pendingDeals, readySenders, inviteVars, observing,
                   pureVars, sessionVars, pendingJoins, gatewayUp>>

(***************************************************************************)
(* Invitations, lines 897-1025 and 1300-1313.  pendingInvitations holds    *)
(* one entry per inviter, in the order the keys were added; the timeoutId  *)
(* of an entry identifies the invitation.  socket.data.name and the        *)
(* isInGame fields of the onlinePlayers documents are not part of the      *)
(* model's state: what the checks of lines 902, 918 and 965 find is drawn. *)
(***************************************************************************)
InvitationTimeoutMs == 60000

\* pendingInvitations[inviterSocketId]: the index of the entry, 0 when unset
InvitationOf(inviterSocketId) ==
    IF \E i \in DOMAIN pendingInvitations :
            pendingInvitations[i].inviterSocketId = inviterSocketId
    THEN CHOOSE i \in DOMAIN pendingInvitations :
            pendingInvitations[i].inviterSocketId = inviterSocketId
    ELSE 0

\* The timeoutId of the inviter's entry, as a set: empty when there is none.
TimeoutIdOf(inviterSocketId) ==
    {pendingInvitations[i].timeoutId : i \in {j \in DOMAIN pendingInvitations :
        pendingInvitations[j].inviterSocketId = inviterSocketId}}

\* delete pendingInvitations[...] for the entries with these timeoutIds
WithoutInvitations(ids) ==
    SelectSeq(pendingInvitations, LAMBDA e : e.timeoutId \notin ids)

\* clearTimeout(...timeoutId) for these timeoutIds
WithoutTimeouts(ids) ==
    [id \in DOMAIN invitationTimeouts \ ids |-> invitationTimeouts[id]]

\* The log after a handler ended the invitations ids.
Ended(ids, how) ==
    [id \in DOMAIN invitationLog |->
        IF id \in ids THEN Append(invitationLog[id], how) ELSE invitationLog[id]]

\* lines 923-926: the timers left when sendInvitation replaces the inviter's entry
ReplacedTimeoutsKept(inviterSocketId) == invitationTimeouts

ReplacedTimeouts(inviterSocketId) == WithoutTimeouts(TimeoutIdOf(inviterSocketId))

\* sendInvitation up to the two findOne of lines 912-913.
SendInvitationRead(s, invitedSocketId, inviterName) ==
    /\ s \in connected
    /\ IF ~inviterName
       THEN /\ Emit(<<GameError(s, "Errore: nome invitante non disponibile.")>>)
            /\ UNCHANGED pendingSends
       ELSE IF s = invitedSocketId
       THEN /\ Emit(<<GameError(s, "Non puoi invitare te stesso!")>>)
            /\ UNCHANGED pendingSends
       ELSE /\ Emit(<<>>)
            /\ pendingSends' = pendingSends \cup
                    {[inviterSocketId |-> s, invitedSocketId |-> invitedSocketId,
                      inviterData |-> s \in onlinePlayers,
                      invitedData |-> invitedSocketId \in onlinePlayers]}
    /\ UNCHANGED <<matches, sockRoom, gameStates, pendingDeals, detachedDeals, readySenders,
                   pendingInvitations, invitationTimeouts, invitationLog, observing,
                   pureVars, sessionVars, asyncVars>>

\* sendInvitation from line 914 on.  Reading isInGame of a missing inviter
\* document (line 918) throws and ends the handler.
SendInvitationRegister(send, isInGame) ==
    /\ send \in pendingSends
    /\ pendingSends' = pendingSends \ {send}
    /\ IF ~send.invitedData
       THEN /\ Emit(<<GameError(send.inviterSocketId,
                        "Il giocatore che hai invitato non è più online.")>>)
            /\ UNCHANGED <<pendingInvitations, invitationTimeouts, invitationLog>>
       ELSE IF ~send.inviterData
       THEN /\ Emit(<<>>)
            /\ UNCHANGED <<pendingInvitations, invitationTimeouts, invitationLog>>
       ELSE IF isInGame
       THEN /\ Emit(<<GameError(send.inviterSocketId, "Uno dei giocatori è già in partita.")>>)
            /\ UNCHANGED <<pendingInvitations, invitationTimeouts, invitationLog>>
       ELSE LET invitationTimeout == Len(invitationLog) + 1
            IN  /\ invitationTimeouts' =
                        Put(ReplacedTimeouts(send.inviterSocketId), invitationTimeout,
                            [inviterSocketId |-> send.inviterSocketId,
                             invitedName |-> send.invitedSocketId])
                /\ pendingInvitations' =
                        Append(WithoutInvitations(TimeoutIdOf(send.inviterSocketId)),
                               [inviterSocketId |-> send.inviterSocketId,
                                invitedSocketId |-> send.invitedSocketId,
                                timeoutId |-> invitationTimeout,
                                invitedPlayerName |-> send.invitedSocketId])
                /\ invitationLog' =
                        Append(Ended(TimeoutIdOf(send.inviterSocketId), "replaced"), <<>>)
                /\ Emit(<<[event |-> "receiveInvitation", to |-> send.invitedSocketId,
                           inviterSocketId |-> send.inviterSocketId,
                           timeout |-> InvitationTimeoutMs],
                          [event |-> "invitationSent", to |-> send.inviterSocketId,
                           invitedName |-> send.invitedSocketId]>>)
    /\ UNCHANGED <<matches, sockRoom, gameStates, pendingDeals, detachedDeals, readySenders,
                   observing, pureVars, sessionVars, asyncVars>>

\* The callback of the setTimeout of lines 928-934.
InvitationTimeout(timeoutId) ==
    /\ timeoutId \in DOMAIN invitationTimeouts
    /\ Emit(<<[event |-> "invitationExpired",
               to |-> invitationTimeouts[timeoutId].inviterSocketId,
               invitedName |-> invitationTimeouts[timeoutId].invitedName]>>)
    /\ pendingInvitations' =
            WithoutInvitations(TimeoutIdOf(invitationTimeouts[timeoutId].inviterSocketId))
    /\ invitationTimeouts' = WithoutTimeouts({timeoutId})
    /\ invitationLog' = Ended({timeoutId}, "expired")
    /\ UNCHANGED <<matches, sockRoom, gameStates, pendingDeals, detachedDeals, readySenders,
                   pendingSends, observing, pureVars, sessionVars, asyncVars>>

\* acceptInvitation, lines 950-1009.  The room document has no roomSize.
AcceptInvitation(s, inviterSocketId, roomCode, isInGame) ==
    /\ s \in connected
    /\ pendingInvitations' = WithoutInvitations(TimeoutIdOf(inviterSocketId))
    /\ invitationTimeouts' = WithoutTimeouts(TimeoutIdOf(inviterSocketId))
    /\ invitationLog' = Ended(TimeoutIdOf(inviterSocketId), "accepted")
    /\ IF inviterSocketId \notin onlinePlayers
       THEN /\ Emit(<<GameError(s, "Il giocatore che ti ha invitato non è più online o ha annullato l'invito.")>>)
            /\ UNCHANGED <<matches, sockRoom>>
       ELSE IF isInGame
       THEN /\ Emit(<<GameError(s, "Uno dei giocatori è già in una partita.")>>)
            /\ UNCHANGED <<matches, sockRoom>>
       ELSE /\ matches' = Append(matches, [roomCode |-> roomCode,
                                           players |-> <<inviterSocketId, s>>,
                                           roomSize |-> NoSize])
            /\ IF inviterSocketId \in connected
               THEN /\ sockRoom' = [x \in DOMAIN sockRoom |->
                                    IF x \in {inviterSocketId, s} THEN roomCode
                                    ELSE sockRoom[x]]
                    /\ Emit(<<[event |-> "gameReady", to |-> roomCode,
                               creatorSocketId |-> inviterSocketId,
                               roomCode |-> roomCode]>>)
               ELSE /\ Emit(<<GameError(s, "Errore nell'unione alla stanza (invitante non trovato).")>>)
                    /\ UNCHANGED sockRoom
    /\ UNCHANGED <<gameStates, pendingDeals, detachedDeals, readySenders, pendingSends,
                   observing, pureVars, sessionVars, asyncVars>>

\* declineInvitation, lines 1011-1025
DeclineInvitation(s, inviterSocketId) ==
    /\ s \in connected
    /\ pendingInvitations' = WithoutInvitations(TimeoutIdOf(inviterSocketId))
    /\ invitationTimeouts' = WithoutTimeouts(TimeoutIdOf(inviterSocketId))
    /\ invitationLog' = Ended(TimeoutIdOf(inviterSocketId), "declined")
    /\ Emit(IF InvitationOf(inviterSocketId) = 0 THEN <<>>
            ELSE <<[event |-> "invitationDeclined", to |-> inviterSocketId,
                    declinerName |->
                        pendingInvitations[InvitationOf(inviterSocketId)].invitedPlayerName]>>)
    /\ UNCHANGED <<matches, sockRoom, gameStates, pendingDeals, detachedDeals, readySenders,
                   pendingSends, observing, pureVars, sessionVars, asyncVars>>

\* disconnect, lines 1300-1313: the entry of the socket as inviter, then the
\* entries that invite it, in key order, each with an invitationExpired.
InvitingDisconnected(s) ==
    SelectSeq(pendingInvitations,
              LAMBDA e : e.inviterSocketId # s /\ e.invitedSocketId = s)

CancelledByDisconnect(s) ==
    TimeoutIdOf(s) \cup {InvitingDisconnected(s)[i].timeoutId :
                            i \in DOMAIN InvitingDisconnected(s)}

ExpiredForInvited(s) ==
    [i \in DOMAIN InvitingDisconnected(s) |->
        [event |-> "invitationExpired", to |-> InvitingDisconnected(s)[i].inviterSocketId,
         invitedName |-> InvitingDisconnected(s)[i].invitedPlayerName]]

(***************************************************************************)
(* playerBet, lines 1207-1232.                                             *)
(***************************************************************************)
\* line 1212
StoreBet(game, s, bet) ==
    [game EXCEPT !.players[s].bet = <<bet>>]

AllBetsSet(game) ==
    \A i \in DOMAIN PlayerIds(game) : game.players[PlayerIds(game)[i]].bet # NoBet

BetEventsOwnBidTwice(game, s, bet) ==
    LET playerIds == PlayerIds(game)
        otherId == FindOther(playerIds, s)
    IN  IF AllBetsSet(game)
        THEN [i \in DOMAIN playerIds |->
                [event |-> "bothBetsPlaced", to |-> playerIds[i],
                 yourBet |-> game.players[playerIds[i]].bet,
                 opponentBet |-> game.players[playerIds[i]].bet]]
        ELSE IF otherId # NoId /\ game.players[otherId].bet = NoBet
             THEN <<[event |-> "opponentBetPlaced", to |-> otherId,
                     opponentBet |-> <<bet>>]>>
             ELSE <<>>

\* lines 1213-1231
BetEvents(game, s, bet) ==
    LET playerIds == PlayerIds(game)
        otherId == FindOther(playerIds, s)
    IN  IF AllBetsSet(game)
        THEN IF \E i \in DOMAIN playerIds : FindOther(playerIds, playerIds[i]) = NoId
             THEN <<>>
             ELSE [i \in DOMAIN playerIds |->
                    [event |-> "bothBetsPlaced", to |-> playerIds[i],
                     yourBet |-> game.players[playerIds[i]].bet,
                     opponentBet |-> game.players[FindOther(playerIds, playerIds[i])].bet]]
        ELSE IF otherId # NoId /\ game.players[otherId].bet = NoBet
             THEN <<[event |-> "opponentBetPlaced", to |-> otherId,
                     opponentBet |-> <<bet>>]>>
             ELSE <<>>

PlayerBet(s, roomCode, bet) ==
    /\ IF roomCode \notin DOMAIN gameStates
          \/ s \notin DOMAIN gameStates[roomCode].players
       THEN /\ Emit(<<>>)
            /\ UNCHANGED gameStates
       ELSE LET game == StoreBet(gameStates[roomCode], s, bet)
            IN  /\ gameStates' = [gameStates EXCEPT ![roomCode] = game]
                /\ Emit(BetEvents(game, s, bet))
    /\ UNCHANGED <<matches, sockRoom, pendingDeals, detachedDeals, readySenders, inviteVars, observing,
                   pureVars, sessionVars, asyncVars>>

(***************************************************************************)
(* playerCardPlayed, lines 1234-1293.                                      *)
(***************************************************************************)
\* lines 1235-1264: what the handler decides before it changes anything.
\* "silent" is a return without any emit.
PlayVerdictNoTurnCheck(roomCode, s, card, cardIndex) ==
    IF roomCode \notin DOMAIN gameStates
       \/ s \notin DOMAIN gameStates[roomCode].players
    THEN "silent"
    ELSE LET game == gameStates[roomCode]
             player == game.players[s]
         IN  IF FindOther(PlayerIds(game), s) = NoId THEN "silent"
             ELSE IF \/ ~HasCardAt(player.hand, cardIndex)
                     \/ CardAt(player.hand, cardIndex).suit # card.suit
                     \/ CardAt(player.hand, cardIndex).value # card.value
                  THEN "IllegalCard"
             ELSE IF CardAt(player.hand, cardIndex).played THEN "AlreadyPlayed"
             ELSE "accepted"

PlayVerdictIndexOnly(roomCode, s, card, cardIndex) ==
    IF roomCode \notin DOMAIN gameStates
       \/ s \notin DOMAIN gameStates[roomCode].players
    THEN "silent"
    ELSE LET game == gameStates[roomCode]
             player == game.players[s]
         IN  IF FindOther(PlayerIds(game), s) = NoId THEN "silent"
             ELSE IF ~HasCardAt(player.hand, cardIndex) THEN "IllegalCard"
             ELSE IF CardAt(player.hand, cardIndex).played THEN "AlreadyPlayed"
             ELSE IF game.firstToReveal # s THEN "NotYourTurn"
             ELSE "accepted"

PlayVerdictNoPlayedCheck(roomCode, s, card, cardIndex) ==
    IF roomCode \notin DOMAIN gameStates
       \/ s \notin DOMAIN gameStates[roomCode].players
    THEN "silent"
    ELSE LET game == gameStates[roomCode]
             player == game.players[s]
         IN  IF FindOther(PlayerIds(game), s) = NoId THEN "silent"
             ELSE IF \/ ~HasCardAt(player.hand, cardIndex)
                     \/ CardAt(player.hand, cardIndex).suit # card.suit
                     \/ CardAt(player.hand, cardIndex).value # card.value
                  THEN "IllegalCard"
             ELSE IF game.firstToReveal # s THEN "NotYourTurn"
             ELSE "accepted"

PlayVerdict(roomCode, s, card, cardIndex) ==
    IF roomCode \notin DOMAIN gameStates
       \/ s \notin DOMAIN gameStates[roomCode].players
    THEN "silent"
    ELSE LET game == gameStates[roomCode]
             player == game.players[s]
         IN  IF FindOther(PlayerIds(game), s) = NoId THEN "silent"
             ELSE IF \/ ~HasCardAt(player.hand, cardIndex)
                     \/ CardAt(player.hand, cardIndex).suit # card.suit
                     \/ CardAt(player.hand, cardIndex).value # card.value
                  THEN "IllegalCard"
             ELSE IF CardAt(player.hand, cardIndex).played THEN "AlreadyPlayed"
             ELSE IF game.firstToReveal # s THEN "NotYourTurn"
             ELSE "accepted"

AcceptCardNoFlag(game, s, card, cardIndex) ==
    [game EXCEPT
        !.players[s].playedCard = card,
        !.players[s].revealedCardsCount = @ + 1]

\* lines 1265-1268
AcceptCard(game, s, card, cardIndex) ==
    [game EXCEPT
        !.players[s].playedCard = card,
        !.players[s].revealedCardsCount = @ + 1,
        !.players[s].hand[cardIndex + 1].played = TRUE]

\* lines 1269-1280: the game, the events and the deletion after an accepted card
AfterAcceptedCardKeepTurn(roomCode, game, s, card, cardIndex) ==
    LET opponentId == FindOther(PlayerIds(game), s)
    IN  IF game.players[opponentId].playedCard # NoCard
        THEN processPlayedCards(roomCode, game)
        ELSE [game |-> game,
              events |->
                <<[event |-> "opponentPlayedTheirCard", to |-> opponentId,
                   opponentCard |-> card, opponentCardIndex |-> cardIndex],
                  Event("waitingForOpponentPlay", s)>>,
              deleted |-> FALSE]

AfterAcceptedCard(roomCode, game, s, card, cardIndex) ==
    LET opponentId == FindOther(PlayerIds(game), s)
    IN  IF game.players[opponentId].playedCard # NoCard
        THEN processPlayedCards(roomCode, game)
        ELSE [game |-> [game EXCEPT !.firstToReveal = opponentId],
              events |->
                <<[event |-> "opponentPlayedTheirCard", to |-> opponentId,
                   opponentCard |-> card, opponentCardIndex |-> cardIndex],
                  Event("waitingForOpponentPlay", s)>>,
              deleted |-> FALSE]

PlayerCardPlayed(s, roomCode, card, cardIndex) ==
    LET verdict == PlayVerdict(roomCode, s, card, cardIndex)
    IN  /\ IF verdict = "accepted"
           THEN LET after == AfterAcceptedCard(roomCode,
                                AcceptCard(gameStates[roomCode], s, card, cardIndex),
                                s, card, cardIndex)
                IN  /\ gameStates' =
                        IF after.deleted THEN Delete(gameStates, roomCode)
                        ELSE [gameStates EXCEPT ![roomCode] = after.game]
                    /\ Emit(after.events)
                    /\ Save(roomCode, after.game)
                    /\ IF after.deleted
                       THEN /\ detachedDeals' =
                                [detachedDeals EXCEPT ![roomCode] =
                                    @ \o [i \in 1 .. pendingDeals[roomCode] |-> after.game]]
                            /\ pendingDeals' = [pendingDeals EXCEPT ![roomCode] = 0]
                            /\ readySenders' = [readySenders EXCEPT ![roomCode] = {}]
                       ELSE UNCHANGED <<pendingDeals, detachedDeals, readySenders>>
           ELSE /\ Emit(IF verdict = "silent" THEN <<>> ELSE <<GameError(s, verdict)>>)
                /\ UNCHANGED <<gameStates, pendingDeals, detachedDeals, readySenders,
                               snapshots>>
        /\ UNCHANGED <<matches, sockRoom, inviteVars, observing, pureVars, sessionVars, pendingJoins,
                       gatewayUp>>

(***************************************************************************)
(* Connections: the reconnect check of io.on("connection"), lines 860-865, *)
(* and the disconnect handler, lines 1296-1364, with its timer callback.   *)
(* Of the invitations nothing is modelled, of the onlinePlayers collection *)
(* the set of ids that have a document.  The id of a connection is given   *)
(* by socket.io: a client that comes back is either given the id it had    *)
(* (Connection, socket.data and rooms restored with it) or a new one       *)
(* (ConnectionWithNewId); the Server of lines 621-623 sets no              *)
(* connectionStateRecovery.  The timer callback is taken as one step.      *)
(***************************************************************************)
\* lines 654-661
findRoomBySocketId(socketId) ==
    IF \E r \in DOMAIN gameStates : socketId \in DOMAIN gameStates[r].players
    THEN CHOOSE r \in DOMAIN gameStates : socketId \in DOMAIN gameStates[r].players
    ELSE NoId

ClearTimeoutLeavesTimer(pending, s) == pending

\* clearTimeout(disconnectionTimers[s]): the entry holds the handle of the
\* setTimeout started last for s.
ClearTimeout(pending, s) ==
    LET last == CHOOSE i \in DOMAIN pending :
                    /\ pending[i].id = s
                    /\ \A j \in DOMAIN pending : pending[j].id = s => j <= i
    IN  IF \E i \in DOMAIN pending : pending[i].id = s
        THEN [i \in 1 .. Len(pending) - 1 |->
                IF i < last THEN pending[i] ELSE pending[i + 1]]
        ELSE pending

\* lines 855-865 for a connection that carries the id s
Connection(s) ==
    /\ s \notin connected
    /\ connected' = connected \cup {s}
    /\ IF s \in DOMAIN disconnectionTimers
       THEN /\ timeouts' = ClearTimeout(timeouts, s)
            /\ disconnectionTimers' = Delete(disconnectionTimers, s)
            /\ Emit(<<Event("reconnected", s)>>)
       ELSE /\ Emit(<<>>)
            /\ UNCHANGED <<disconnectionTimers, timeouts>>
    /\ UNCHANGED <<matches, sockRoom, gameStates, pendingDeals, detachedDeals, readySenders,
                   inviteVars, observing, pureVars, rebound, onlinePlayers, asyncVars>>

\* lines 855-865 for the connection of the client that was s, under an id no
\* socket has had: disconnectionTimers has no entry for it.
ConnectionWithNewId(s) ==
    /\ s \notin connected
    /\ s \in DOMAIN disconnectionTimers
    /\ s \notin rebound
    /\ rebound' = rebound \cup {s}
    /\ Emit(<<>>)
    /\ UNCHANGED <<matches, sockRoom, gameStates, pendingDeals, detachedDeals, readySenders,
                   inviteVars, observing, pureVars, disconnectionTimers, connected, timeouts,
                   onlinePlayers, asyncVars>>

\* lines 1296-1364, up to the setTimeout; outside a room the document of
\* onlinePlayers is deleted at once (1352-1363).
Disconnect(s) ==
    /\ s \in connected
    /\ connected' = connected \ {s}
    /\ pendingInvitations' = WithoutInvitations(CancelledByDisconnect(s))
    /\ invitationTimeouts' = WithoutTimeouts(CancelledByDisconnect(s))
    /\ invitationLog' = Ended(CancelledByDisconnect(s), "cancelled")
    /\ UNCHANGED pendingSends
    /\ IF findRoomBySocketId(s) # NoId
       THEN /\ timeouts' = Append(timeouts, [id |-> s, roomCode |-> findRoomBySocketId(s)])
            /\ disconnectionTimers' = Put(disconnectionTimers, s, findRoomBySocketId(s))
            /\ UNCHANGED onlinePlayers
       ELSE /\ onlinePlayers' = onlinePlayers \ {s}
            /\ UNCHANGED <<disconnectionTimers, timeouts>>
    /\ Emit(ExpiredForInvited(s))
    /\ UNCHANGED <<matches, sockRoom, gameStates, pendingDeals, detachedDeals, readySenders,
                   observing, pureVars, rebound, asyncVars>>

\* $pull: { players: { socketId } } on the room's document, line 1336
Pull(roomCode, s) ==
    IF findOne(roomCode) = 0 THEN matches
    ELSE [matches EXCEPT ![findOne(roomCode)].players = SelectSeq(@, LAMBDA p : p # s)]

\* deleteOne({ roomCode }), line 1339
DeleteOne(docs, roomCode) ==
    LET first == IF \E i \in DOMAIN docs : docs[i].roomCode = roomCode
                 THEN CHOOSE i \in DOMAIN docs :
                        /\ docs[i].roomCode = roomCode
                        /\ \A j \in DOMAIN docs : docs[j].roomCode = roomCode => i <= j
                 ELSE 0
    IN  [i \in 1 .. (Len(docs) - (IF first = 0 THEN 0 ELSE 1)) |->
            IF first = 0 \/ i < first THEN docs[i] ELSE docs[i + 1]]

\* The members of the room that the callback notifies: lines 1328-1335.
NotifiedOnExpiry(roomCode, s) ==
    LET players == RoomPlayers(roomCode)
        otherPlayer == FindOther(players, s)
    IN  IF Len(players) > 1 /\ otherPlayer # NoId THEN {otherPlayer} ELSE {}

\* The first of the pending callbacks of s.
FirstTimeout(s) ==
    CHOOSE i \in DOMAIN timeouts :
        /\ timeouts[i].id = s
        /\ \A j \in DOMAIN timeouts : timeouts[j].id = s => i <= j

\* The callback of the setTimeout, lines 1318-1351.
TimerExpires(s) ==
    /\ \E i \in DOMAIN timeouts : timeouts[i].id = s
    /\ LET roomCode == timeouts[FirstTimeout(s)].roomCode
           pulled == Pull(roomCode, s)
           emptied == \/ findOne(roomCode) = 0
                      \/ pulled[findOne(roomCode)].players = <<>>
       IN  /\ Emit(IF NotifiedOnExpiry(roomCode, s) = {} THEN <<>>
                   ELSE <<[event |-> "opponentDisconnected",
                           to |-> FindOther(RoomPlayers(roomCode), s),
                           roomCode |-> roomCode]>>)
           /\ matches' = IF emptied THEN DeleteOne(pulled, roomCode) ELSE pulled
           /\ snapshots' = IF emptied THEN Delete(snapshots, roomCode) ELSE snapshots
           /\ IF emptied /\ roomCode \in DOMAIN gameStates
              THEN /\ gameStates' = Delete(gameStates, roomCode)
                   /\ detachedDeals' =
                        [detachedDeals EXCEPT ![roomCode] =
                            @ \o [i \in 1 .. pendingDeals[roomCode] |->
                                    gameStates[roomCode]]]
                   /\ pendingDeals' = [pendingDeals EXCEPT ![roomCode] = 0]
                   /\ readySenders' = [readySenders EXCEPT ![roomCode] = {}]
              ELSE UNCHANGED <<gameStates, pendingDeals, detachedDeals, readySenders>>
    /\ timeouts' = [i \in 1 .. Len(timeouts) - 1 |->
                        IF i < FirstTimeout(s) THEN timeouts[i] ELSE timeouts[i + 1]]
    /\ onlinePlayers' = onlinePlayers \ {s}
    /\ disconnectionTimers' = Delete(disconnectionTimers, s)
    /\ UNCHANGED <<sockRoom, inviteVars, observing, pureVars, connected, rebound, pendingJoins, gatewayUp>>

(***************************************************************************)
(* The specification of the server.                                        *)
(***************************************************************************)
\* What a client names in a play, as <<card, cardIndex>>: every card of its
\* hand at the card's own index, its first card at the index after the hand's
\* last, and a card at index 0 that is not the one it holds there.
CardOf(c) == [suit |-> c.suit, value |-> c.value]

PlayClaims(roomCode, s) ==
    LET hand == IF roomCode \in DOMAIN gameStates
                   /\ s \in DOMAIN gameStates[roomCode].players
                THEN gameStates[roomCode].players[s].hand ELSE <<>>
        other == CHOOSE c \in DeckCards : hand = <<>> \/ c # CardOf(hand[1])
    IN  {<<CardOf(hand[i]), i - 1>> : i \in DOMAIN hand}
        \cup {<<CardOf(hand[1]), Len(hand)>> : i \in DOMAIN hand}
        \cup {<<other, 0>>}

NoCompare == [c1 |-> NoCard, c2 |-> NoCard, done |-> FALSE, r12 |-> FALSE, r21 |-> FALSE]
NoScoring == [score |-> 0, wins |-> 0, bet |-> NoBet, done |-> FALSE, result |-> 0]

\* The room after createRoom by Creator (lines 1030-1045), before anyone joins.
InitRoom ==
    /\ matches = <<[roomCode |-> CHOOSE r \in RoomCodes : TRUE,
                    players |-> <<Creator>>, roomSize |-> 2]>>
    /\ sockRoom = [s \in Sockets |->
                    IF s = Creator THEN CHOOSE r \in RoomCodes : TRUE ELSE NoId]
    /\ gameStates = <<>>
    /\ pendingDeals = [r \in RoomCodes |-> 0]
    /\ detachedDeals = [r \in RoomCodes |-> <<>>]
    /\ readySenders = [r \in RoomCodes |-> {}]
    /\ emitted = <<>>
    /\ disconnectionTimers = <<>>
    /\ connected = Sockets
    /\ rebound = {}
    /\ timeouts = <<>>
    /\ onlinePlayers = Sockets
    /\ pendingJoins = {}
    /\ snapshots = <<>>

Next ==
    \/ \E s \in Joiners, r \in RoomCodes : JoinRoom(s, r)
    \/ \E s \in Sockets : StartRoundRequest(s)
    \/ \E r \in RoomCodes, seed \in Seeds, coin \in BOOLEAN : DealComplete(r, seed, coin)
    \/ \E s \in Sockets, r \in RoomCodes, b \in Bets : PlayerBet(s, r, b)
    \/ \E s \in Sockets, r \in RoomCodes :
         \E claim \in PlayClaims(r, s) : PlayerCardPlayed(s, r, claim[1], claim[2])

\* The server with its emitted events recorded.
Init ==
    /\ InitRoom
    /\ observing = TRUE
    /\ gatewayUp = FALSE
    /\ NoInvitations
    /\ cmp = NoCompare
    /\ scoring = NoScoring
Spec == Init /\ [][Next]_vars

\* The same server, the emitted events not recorded.
InitCore ==
    /\ InitRoom
    /\ observing = FALSE
    /\ gatewayUp = FALSE
    /\ NoInvitations
    /\ cmp = NoCompare
    /\ scoring = NoScoring
SpecCore == InitCore /\ [][Next]_vars

(***************************************************************************)
(* The server over a whole game.  The ready counter may deal up to round   *)
(* RoundCap + 1, one deal suspended at a time; the clients play only in    *)
(* round 1 and from round RoundCap on, a client plays the first unplayed   *)
(* card of its hand, and the clients bid LongBets from round RoundCap on.  *)
(* A deal suspended on a game that was deleted resumes before the next     *)
(* message is handled.                                                     *)
(***************************************************************************)
LongRoundLimit == RoundCap + 1
LongPendingLimit == 1
LongBets == {1}

PlaysInLongGame(roomCode) ==
    /\ roomCode \in DOMAIN gameStates
    /\ \/ gameStates[roomCode].round = 1
       \/ gameStates[roomCode].round >= RoundCap

BidsInLongGame(roomCode) ==
    /\ roomCode \in DOMAIN gameStates
    /\ gameStates[roomCode].round >= RoundCap

FirstUnplayedClaim(roomCode, s) ==
    LET hand == IF PlaysInLongGame(roomCode)
                   /\ s \in DOMAIN gameStates[roomCode].players
                THEN gameStates[roomCode].players[s].hand ELSE <<>>
        unplayed == {i \in DOMAIN hand : ~hand[i].played}
    IN  {<<CardOf(hand[i]), i - 1>> :
            i \in {j \in unplayed : \A k \in unplayed : j <= k}}

NoDetachedDeal == \A r \in RoomCodes : detachedDeals[r] = <<>>

NextLong ==
    \/ \E s \in Joiners, r \in RoomCodes : NoDetachedDeal /\ JoinRoom(s, r)
    \/ \E s \in Sockets :
         NoDetachedDeal /\ StartRoundRequestUpTo(s, LongRoundLimit, LongPendingLimit)
    \/ \E r \in RoomCodes, seed \in Seeds, coin \in BOOLEAN :
         NoDetachedDeal /\ DealComplete(r, seed, coin)
    \/ \E r \in RoomCodes, seed \in Seeds, coin \in BOOLEAN : DealDetached(r, seed, coin)
    \/ \E s \in Sockets, r \in RoomCodes, b \in LongBets :
         NoDetachedDeal /\ BidsInLongGame(r) /\ PlayerBet(s, r, b)
    \/ \E s \in Sockets, r \in RoomCodes :
         \E claim \in FirstUnplayedClaim(r, s) :
            NoDetachedDeal /\ PlayerCardPlayed(s, r, claim[1], claim[2])

SpecLong == Init /\ [][NextLong]_vars

(***************************************************************************)
(* The server with connections that drop and come back.  The clients bid   *)
(* LongBets and play the first unplayed card of their hand; one deal is    *)
(* suspended at a time.                                                    *)
(***************************************************************************)
Droppers == {"s2"}

NextCardClaim(roomCode, s) ==
    LET hand == IF roomCode \in DOMAIN gameStates
                   /\ s \in DOMAIN gameStates[roomCode].players
                THEN gameStates[roomCode].players[s].hand ELSE <<>>
        unplayed == {i \in DOMAIN hand : ~hand[i].played}
    IN  {<<CardOf(hand[i]), i - 1>> :
            i \in {j \in unplayed : \A k \in unplayed : j <= k}}

NextSession ==
    \/ \E s \in Joiners \cap connected, r \in RoomCodes : JoinRoom(s, r)
    \/ \E s \in connected : StartRoundRequestUpTo(s, MaxRound, LongPendingLimit)
    \/ \E r \in RoomCodes, seed \in Seeds, coin \in BOOLEAN : DealComplete(r, seed, coin)
    \/ \E s \in connected, r \in RoomCodes, b \in LongBets : PlayerBet(s, r, b)
    \/ \E s \in connected, r \in RoomCodes :
         \E claim \in NextCardClaim(r, s) : PlayerCardPlayed(s, r, claim[1], claim[2])
    \/ \E s \in Droppers : Disconnect(s)
    \/ \E s \in Droppers : Connection(s)
    \/ \E s \in Droppers : ConnectionWithNewId(s)
    \/ \E s \in Droppers : TimerExpires(s)

SpecSession == Init /\ [][NextSession]_vars

(***************************************************************************)
(* The server from its start, with no room yet: rooms are created with a   *)
(* drawn code and a given size, and joinRoom runs in its two parts.  A     *)
(* client creates or joins a room only while its socket is in none.        *)
(***************************************************************************)
MaxRooms == 2
LobbyCodes == {"1000", "1001"}
LobbySizes == {NoSize, 1, 2, 3}

InitLobby ==
    /\ matches = <<>>
    /\ sockRoom = [s \in Sockets |-> NoId]
    /\ gameStates = <<>>
    /\ pendingDeals = [r \in LobbyCodes |-> 0]
    /\ detachedDeals = [r \in LobbyCodes |-> <<>>]
    /\ readySenders = [r \in LobbyCodes |-> {}]
    /\ emitted = <<>>
    /\ observing = TRUE
    /\ cmp = NoCompare
    /\ scoring = NoScoring
    /\ disconnectionTimers = <<>>
    /\ connected = Sockets
    /\ rebound = {}
    /\ timeouts = <<>>
    /\ onlinePlayers = Sockets
    /\ pendingJoins = {}
    /\ snapshots = <<>>
    /\ gatewayUp = FALSE
    /\ NoInvitations

InNoRoom(s) == sockRoom[s] = NoId /\ \A r \in LobbyCodes : <<s, r>> \notin pendingJoins

NextLobby ==
    \/ \E s \in Sockets, size \in LobbySizes, r \in LobbyCodes :
         /\ Len(matches) < MaxRooms
         /\ InNoRoom(s)
         /\ CreateRoom(s, size, r)
    \/ \E s \in Sockets, r \in LobbyCodes : InNoRoom(s) /\ JoinRoomRead(s, r)
    \/ \E s \in Sockets, r \in LobbyCodes : JoinRoomPush(s, r)

SpecLobby == InitLobby /\ [][NextLobby]_vars

(***************************************************************************)
(* A room of two or of three places over its life: the others join, rounds *)
(* are requested and dealt but not played, connections drop for good and   *)
(* their timers run out.                                                   *)
(***************************************************************************)
LifeSizes == {2, 3}
LifeJoiners == {"s2", "s3"}
LifeSeeds == {1}

InitLife ==
    /\ \E size \in LifeSizes :
         matches = <<[roomCode |-> CHOOSE r \in RoomCodes : TRUE,
                      players |-> <<Creator>>, roomSize |-> size]>>
    /\ sockRoom = [s \in Sockets |->
                    IF s = Creator THEN CHOOSE r \in RoomCodes : TRUE ELSE NoId]
    /\ gameStates = <<>>
    /\ pendingDeals = [r \in RoomCodes |-> 0]
    /\ detachedDeals = [r \in RoomCodes |-> <<>>]
    /\ readySenders = [r \in RoomCodes |-> {}]
    /\ emitted = <<>>
    /\ observing = TRUE
    /\ cmp = NoCompare
    /\ scoring = NoScoring
    /\ disconnectionTimers = <<>>
    /\ connected = Sockets
    /\ rebound = {}
    /\ timeouts = <<>>
    /\ onlinePlayers = Sockets
    /\ pendingJoins = {}
    /\ snapshots = <<>>
    /\ gatewayUp = FALSE
    /\ NoInvitations

NextLife ==
    \/ \E s \in LifeJoiners \cap connected, r \in RoomCodes :
         sockRoom[s] = NoId /\ JoinRoom(s, r)
    \/ \E s \in connected : StartRoundRequestUpTo(s, MaxRound, LongPendingLimit)
    \/ \E r \in RoomCodes, seed \in LifeSeeds, coin \in BOOLEAN :
         DealComplete(r, seed, coin)
    \/ \E r \in RoomCodes, seed \in LifeSeeds, coin \in BOOLEAN :
         DealDetached(r, seed, coin)
    \/ \E s \in Sockets : Disconnect(s)
    \/ \E s \in Sockets : TimerExpires(s)

SpecLife == InitLife /\ [][NextLife]_vars

\* A setTimeout callback that is pending is run: the timer of line 1318 is
\* not cleared in SpecLife, where no connection comes back.
SpecLifeFair == SpecLife /\ WF_vars(\E s \in Sockets : TimerExpires(s))

(***************************************************************************)
(* The server with a database whose updateOne of the game state succeeds   *)
(* or fails, as the environment has it.  The clients bid LongBets and play *)
(* the first unplayed card of their hand; one deal is suspended at a time. *)
(***************************************************************************)
InitPersist ==
    /\ InitRoom
    /\ observing = TRUE
    /\ gatewayUp \in BOOLEAN
    /\ NoInvitations
    /\ cmp = NoCompare
    /\ scoring = NoScoring

\* The database starts or stops failing.
GatewayFlips ==
    /\ gatewayUp' = ~gatewayUp
    /\ Emit(<<>>)
    /\ UNCHANGED <<matches, sockRoom, gameStates, pendingDeals, detachedDeals, readySenders,
                   inviteVars, observing, pureVars, sessionVars, pendingJoins, snapshots>>

NextPersist ==
    \/ \E s \in Joiners, r \in RoomCodes : JoinRoom(s, r)
    \/ \E s \in Sockets : StartRoundRequestUpTo(s, MaxRound, LongPendingLimit)
    \/ \E r \in RoomCodes, seed \in LifeSeeds, coin \in BOOLEAN : DealComplete(r, seed, coin)
    \/ \E s \in Sockets, r \in RoomCodes, b \in LongBets : PlayerBet(s, r, b)
    \/ \E s \in Sockets, r \in RoomCodes :
         \E claim \in NextCardClaim(r, s) : PlayerCardPlayed(s, r, claim[1], claim[2])
    \/ GatewayFlips

SpecPersist == InitPersist /\ [][NextPersist]_vars

(***************************************************************************)
(* A whole game of two clients that follow the protocol: a client sends    *)
(* startRoundRequest once between two rounds, when both are in the room,   *)
(* bids LongBets once in a round, and when every bet is set and it is its  *)
(* turn plays the first unplayed card of its hand.  Every message that is  *)
(* sent is handled and a suspended deal resumes (weak fairness).           *)
(***************************************************************************)
RoundOpen(roomCode) ==
    /\ roomCode \in DOMAIN gameStates
    /\ gameStates[roomCode].round >= 1
    /\ \E p \in DOMAIN gameStates[roomCode].players :
         \E i \in DOMAIN gameStates[roomCode].players[p].hand :
            ~gameStates[roomCode].players[p].hand[i].played

ClientReady(s) ==
    /\ sockRoom[s] # NoId
    /\ Len(RoomPlayers(sockRoom[s])) = ReadyThreshold
    /\ ~RoundOpen(sockRoom[s])
    /\ pendingDeals[sockRoom[s]] = 0
    /\ s \notin readySenders[sockRoom[s]]
    /\ StartRoundRequestUpTo(s, LongRoundLimit, LongPendingLimit)

ClientBid(s, roomCode, bet) ==
    /\ RoundOpen(roomCode)
    /\ s \in DOMAIN gameStates[roomCode].players
    /\ gameStates[roomCode].players[s].bet = NoBet
    /\ PlayerBet(s, roomCode, bet)

ClientPlay(s, roomCode) ==
    /\ RoundOpen(roomCode)
    /\ AllBetsSet(gameStates[roomCode])
    /\ gameStates[roomCode].firstToReveal = s
    /\ \E claim \in NextCardClaim(roomCode, s) :
         PlayerCardPlayed(s, roomCode, claim[1], claim[2])

NextGame ==
    \/ \E s \in Joiners, r \in RoomCodes : sockRoom[s] = NoId /\ JoinRoom(s, r)
    \/ \E s \in Sockets : ClientReady(s)
    \/ \E r \in RoomCodes, seed \in LifeSeeds, coin \in BOOLEAN : DealComplete(r, seed, coin)
    \/ \E s \in Sockets, r \in RoomCodes, b \in LongBets : ClientBid(s, r, b)
    \/ \E s \in Sockets, r \in RoomCodes : ClientPlay(s, r)

SpecGame == Init /\ [][NextGame]_vars /\ WF_vars(NextGame)

(***************************************************************************)
(* A room of two places whose members change between and during rounds:    *)
(* connected clients that follow the protocol play rounds 1..MaxRound,     *)
(* any connection may drop for good, its timer runs out, and a client      *)
(* that is in no room joins the place that became free.                    *)
(***************************************************************************)
NextTurnover ==
    \/ \E s \in LifeJoiners \cap connected, r \in RoomCodes :
         sockRoom[s] = NoId /\ JoinRoom(s, r)
    \/ \E s \in connected :
         /\ sockRoom[s] # NoId
         /\ Len(RoomPlayers(sockRoom[s])) = ReadyThreshold
         /\ ~RoundOpen(sockRoom[s])
         /\ pendingDeals[sockRoom[s]] = 0
         /\ s \notin readySenders[sockRoom[s]]
         /\ StartRoundRequestUpTo(s, MaxRound, LongPendingLimit)
    \/ \E r \in RoomCodes, seed \in LifeSeeds, coin \in BOOLEAN :
         DealComplete(r, seed, coin)
    \/ \E r \in RoomCodes, seed \in LifeSeeds, coin \in BOOLEAN :
         DealDetached(r, seed, coin)
    \/ \E s \in connected, r \in RoomCodes, b \in LongBets : ClientBid(s, r, b)
    \/ \E s \in connected, r \in RoomCodes : ClientPlay(s, r)
    \/ \E s \in Sockets : Disconnect(s)
    \/ \E s \in Sockets : TimerExpires(s)

SpecTurnover == Init /\ [][NextTurnover]_vars

(***************************************************************************)
(* The lobby of registered players who invite each other: invitations are  *)
(* sent (at most MaxInvites of them are registered), accepted and declined *)
(* by any connected socket, their timeouts run out, connections drop.      *)
(***************************************************************************)
MaxInvites == 2
MaxSends == 1
MaxInviteRooms == 1

InitInvite ==
    /\ matches = <<>>
    /\ sockRoom = [s \in Sockets |-> NoId]
    /\ gameStates = <<>>
    /\ pendingDeals = [r \in RoomCodes |-> 0]
    /\ detachedDeals = [r \in RoomCodes |-> <<>>]
    /\ readySenders = [r \in RoomCodes |-> {}]
    /\ emitted = <<>>
    /\ observing = TRUE
    /\ cmp = NoCompare
    /\ scoring = NoScoring
    /\ disconnectionTimers = <<>>
    /\ connected = Sockets
    /\ rebound = {}
    /\ timeouts = <<>>
    /\ onlinePlayers = Sockets
    /\ pendingJoins = {}
    /\ snapshots = <<>>
    /\ gatewayUp = FALSE
    /\ NoInvitations

NextInvite ==
    \/ \E s \in Sockets, invited \in Sockets, inviterName \in BOOLEAN :
         Cardinality(pendingSends) < MaxSends /\ SendInvitationRead(s, invited, inviterName)
    \/ \E send \in pendingSends, isInGame \in BOOLEAN :
         Len(invitationLog) < MaxInvites /\ SendInvitationRegister(send, isInGame)
    \/ \E timeoutId \in DOMAIN invitationTimeouts : InvitationTimeout(timeoutId)
    \/ \E s \in Sockets, inviter \in Sockets, r \in RoomCodes, isInGame \in BOOLEAN :
         Len(matches) < MaxInviteRooms /\ AcceptInvitation(s, inviter, r, isInGame)
    \/ \E s \in Sockets, inviter \in Sockets : DeclineInvitation(s, inviter)
    \/ \E s \in Sockets : Disconnect(s)

SpecInvite == InitInvite /\ [][NextInvite]_vars

(***************************************************************************)
(* compareCards on its own: a pair of deck cards is drawn, Compare applies *)
(* compareCards to it in both orders.                                      *)
(***************************************************************************)
InitCompare ==
    /\ InitRoom
    /\ observing = FALSE
    /\ gatewayUp = FALSE
    /\ NoInvitations
    /\ scoring = NoScoring
    /\ cmp \in {[c1 |-> a, c2 |-> b, done |-> FALSE, r12 |-> FALSE, r21 |-> FALSE] :
                    a \in DeckCards, b \in DeckCards}

Compare ==
    /\ ~cmp.done
    /\ cmp' = [cmp EXCEPT !.done = TRUE,
                          !.r12 = compareCards(cmp.c1, cmp.c2),
                          !.r21 = compareCards(cmp.c2, cmp.c1)]
    /\ UNCHANGED <<matches, sockRoom, gameStates, pendingDeals, detachedDeals, readySenders,
                   emitted, inviteVars, observing, scoring, sessionVars, asyncVars>>

SpecCompare == InitCompare /\ [][Compare]_vars

(***************************************************************************)
(* The scoring of lines 721-732 on its own: a cumulative score, a trick    *)
(* count and a bet are drawn, Settle applies the scoring to them.          *)
(***************************************************************************)
ScoreSamples == {-3, 0, 11}
BetSamples == {NoBet} \cup {<<b>> : b \in -1 .. MaxWins + 1}

InitScore ==
    /\ InitRoom
    /\ observing = FALSE
    /\ gatewayUp = FALSE
    /\ NoInvitations
    /\ cmp = NoCompare
    /\ scoring \in {[score |-> sc, wins |-> w, bet |-> b, done |-> FALSE, result |-> 0] :
                        sc \in ScoreSamples, w \in 0 .. MaxWins, b \in BetSamples}

Settle ==
    /\ ~scoring.done
    /\ scoring' = [scoring EXCEPT
                        !.done = TRUE,
                        !.result = SettledScore([bet |-> scoring.bet,
                                                 score |-> scoring.score],
                                                scoring.wins)]
    /\ UNCHANGED <<matches, sockRoom, gameStates, pendingDeals, detachedDeals, readySenders,
                   emitted, inviteVars, observing, cmp, sessionVars, asyncVars>>

SpecScore == InitScore /\ [][Settle]_vars

(***************************************************************************)
(* Properties.                                                             *)
(***************************************************************************)
HasGame(r) == r \in DOMAIN gameStates
Dealt(r) == HasGame(r) /\ gameStates[r].round >= 1
IsPlayer(r, s) == HasGame(r) /\ s \in DOMAIN gameStates[r].players

\* A step of playerCardPlayed by s that the handler accepted.
AcceptedPlay(s, r, card, cardIndex) ==
    /\ PlayerCardPlayed(s, r, card, cardIndex)
    /\ gameStates' # gameStates

\* A step that deals a new round in room r.
DealStep(r) ==
    /\ HasGame(r)
    /\ r \in DOMAIN gameStates'
    /\ gameStates'[r].round # gameStates[r].round

\* The card named by the claim is the one stored at the claimed index of s's hand.
NamesOwnCard(r, s, card, cardIndex) ==
    /\ IsPlayer(r, s)
    /\ HasCardAt(gameStates[r].players[s].hand, cardIndex)
    /\ CardOf(CardAt(gameStates[r].players[s].hand, cardIndex)) = card

SomeCardUnplayed(game) ==
    \E p \in DOMAIN game.players :
        \E i \in DOMAIN game.players[p].hand : ~game.players[p].hand[i].played

C2_AcceptedPlayIsLegal ==
    [][ /\ \A s \in Sockets, r \in RoomCodes :
            \A claim \in PlayClaims(r, s) :
                AcceptedPlay(s, r, claim[1], claim[2])
                => /\ NamesOwnCard(r, s, claim[1], claim[2])
                   /\ ~CardAt(gameStates[r].players[s].hand, claim[2]).played
                   /\ gameStates[r].firstToReveal = s
        /\ \A r \in RoomCodes, s \in Sockets :
            ( IsPlayer(r, s) /\ r \in DOMAIN gameStates'
              /\ s \in DOMAIN gameStates'[r].players )
            => \A i \in DOMAIN gameStates[r].players[s].hand
                        \cap DOMAIN gameStates'[r].players[s].hand :
                ( /\ ~gameStates[r].players[s].hand[i].played
                  /\ gameStates'[r].players[s].hand[i].played )
                => /\ gameStates[r].firstToReveal = s
                   /\ AcceptedPlay(s, r, CardOf(gameStates[r].players[s].hand[i]), i - 1)
      ]_vars

\* A card of a two-card hand has been accepted and lies on the table.
C2_Witness ==
    \E r \in RoomCodes, s \in Sockets :
        /\ Dealt(r)
        /\ gameStates[r].round = MaxRound
        /\ IsPlayer(r, s)
        /\ gameStates[r].players[s].playedCard # NoCard
        /\ \E i \in DOMAIN gameStates[r].players[s].hand :
            /\ gameStates[r].players[s].hand[i].played
            /\ CardOf(gameStates[r].players[s].hand[i]) = gameStates[r].players[s].playedCard

\* C3: the deal of round N gives every player exactly N cards, all unplayed,
\* all cards of the 40-card deck, no card dealt twice (in one hand or in two).
C3_DealtHands ==
    [][\A r \in RoomCodes :
        DealStep(r)
        => LET game == gameStates'[r]
           IN  \A p \in DOMAIN game.players :
                /\ Len(game.players[p].hand) = game.round
                /\ \A i \in DOMAIN game.players[p].hand :
                    /\ ~game.players[p].hand[i].played
                    /\ CardOf(game.players[p].hand[i]) \in DeckCards
                    /\ \A q \in DOMAIN game.players :
                        \A j \in DOMAIN game.players[q].hand :
                            (<<p, i>> # <<q, j>>)
                            => CardOf(game.players[p].hand[i])
                                # CardOf(game.players[q].hand[j])]_vars

\* Round MaxRound has just been dealt to two players.
C3_Witness ==
    \E r \in RoomCodes :
        /\ Dealt(r)
        /\ gameStates[r].round = MaxRound
        /\ Cardinality(DOMAIN gameStates[r].players) = 2
        /\ \A p \in DOMAIN gameStates[r].players :
            /\ Len(gameStates[r].players[p].hand) = MaxRound
            /\ \A i \in DOMAIN gameStates[r].players[p].hand :
                ~gameStates[r].players[p].hand[i].played

\* C4: when the ready counter reaches the threshold (the step that triggers a
\* deal), the signals it counted came from pairwise distinct sockets, one per
\* member of the room.
C4_DealNeedsEveryMemberReady ==
    [][\A r \in RoomCodes :
        ( /\ HasGame(r)
          /\ r \in DOMAIN gameStates'
          /\ gameStates[r].nextRoundReadyCount = ReadyThreshold - 1
          /\ gameStates'[r].nextRoundReadyCount = 0 )
        => readySenders'[r] = Range(RoomPlayers(r))]_vars

\* C5: a deal replaces the round only when no round is in progress: before
\* the first round or when every dealt card has been played.
C5_DealOnlyBetweenRounds ==
    [][\A r \in RoomCodes :
        DealStep(r) => ~(Dealt(r) /\ SomeCardUnplayed(gameStates[r]))]_vars

\* C6: whenever a play is accepted, every player of the round has a bet set.
C6_NoPlayBeforeAllBids ==
    [][\A s \in Sockets, r \in RoomCodes :
        \A claim \in PlayClaims(r, s) :
            AcceptedPlay(s, r, claim[1], claim[2])
            => AllBetsSet(gameStates[r])]_vars

\* C7: once every player of a dealt round has a bet, no playerBet changes a
\* stored bet.
C7_BidsImmutableOnceAllDeclared ==
    [][\A s \in Sockets, r \in RoomCodes, b \in Bets :
        ( /\ Dealt(r)
          /\ AllBetsSet(gameStates[r])
          /\ PlayerBet(s, r, b) )
        => \A p \in DOMAIN gameStates[r].players :
            gameStates'[r].players[p].bet = gameStates[r].players[p].bet]_vars

\* The ordering of the claims: rank weight first, suit strength on equal rank.
ClaimedRank(c) ==
    CASE c.value = "2" -> 2 [] c.value = "3" -> 3 [] c.value = "4" -> 4
      [] c.value = "5" -> 5 [] c.value = "6" -> 6 [] c.value = "7" -> 7
      [] c.value = "Fante" -> 8 [] c.value = "Cavallo" -> 9
      [] c.value = "Re" -> 10 [] c.value = "Asso" -> 11

ClaimedSuit(c) ==
    CASE c.suit = "Denari" -> 4 [] c.suit = "Spade" -> 3
      [] c.suit = "Bastoni" -> 2 [] c.suit = "Coppe" -> 1

Stronger(a, b) ==
    \/ ClaimedRank(a) > ClaimedRank(b)
    \/ ClaimedRank(a) = ClaimedRank(b) /\ ClaimedSuit(a) > ClaimedSuit(b)

\* The wins a handResult event reports for player p.
WinsIn(ev, p) == IF ev.player1Id = p THEN ev.player1Wins ELSE ev.player2Wins

\* C8: the accepted play that puts the second card on the table resolves the
\* trick in the same step: the holder of the stronger card is the winner named
\* by handResult and the next game.firstToReveal, handResult reports the
\* winner's trick count grown by one and the loser's unchanged (and so does
\* the stored currentRoundWins while the round goes on), and no playedCard is
\* left on the table.
C8_TrickResolution ==
    [][\A s \in Sockets, r \in RoomCodes :
        \A claim \in PlayClaims(r, s) :
            ( /\ AcceptedPlay(s, r, claim[1], claim[2])
              /\ r \in DOMAIN gameStates'
              /\ gameStates[r].players[FindOther(PlayerIds(gameStates[r]), s)].playedCard
                    # NoCard )
            => LET game == gameStates[r]
                   after == gameStates'[r]
                   other == FindOther(PlayerIds(game), s)
                   winner == IF Stronger(claim[1], game.players[other].playedCard)
                             THEN s ELSE other
                   loser == IF winner = s THEN other ELSE s
               IN  /\ \A p \in DOMAIN after.players : after.players[p].playedCard = NoCard
                   /\ after.firstToReveal = winner
                   /\ Len(emitted') >= 1
                   /\ emitted'[1].event = "handResult"
                   /\ emitted'[1].winnerId = winner
                   /\ WinsIn(emitted'[1], winner) = game.players[winner].currentRoundWins + 1
                   /\ WinsIn(emitted'[1], loser) = game.players[loser].currentRoundWins
                   /\ SomeCardUnplayed(after)
                      => /\ after.players[winner].currentRoundWins
                                = game.players[winner].currentRoundWins + 1
                         /\ after.players[loser].currentRoundWins
                                = game.players[loser].currentRoundWins]_vars

\* A trick that is not the round's last has just been resolved: its winner has
\* one trick and leads the next.
C8_Witness ==
    \E r \in RoomCodes :
        /\ Dealt(r)
        /\ emitted # <<>>
        /\ emitted[1].event = "handResult"
        /\ SomeCardUnplayed(gameStates[r])
        /\ gameStates[r].firstToReveal = emitted[1].winnerId
        /\ gameStates[r].players[emitted[1].winnerId].currentRoundWins = 1
        /\ \A p \in DOMAIN gameStates[r].players :
            gameStates[r].players[p].playedCard = NoCard

\* C9: for two different deck cards exactly one of compareCards(a, b) and
\* compareCards(b, a) is true, and compareCards(a, b) is true exactly when a has
\* the higher rank weight or, on equal rank, the higher suit strength.
C9_CompareCardsTotal ==
    (cmp.done /\ cmp.c1 # cmp.c2)
    => /\ cmp.r12 # cmp.r21
       /\ cmp.r12 <=> Stronger(cmp.c1, cmp.c2)

\* Two cards of equal rank were compared and the first won on its suit.
C9_Witness ==
    /\ cmp.done
    /\ cmp.c1 # cmp.c2
    /\ cmp.c1.value = cmp.c2.value
    /\ cmp.r12
    /\ ~cmp.r21

\* The player who played first in the current trick, or who is to play first.
TrickLeader(game) ==
    IF \E p \in DOMAIN game.players : game.players[p].playedCard # NoCard
    THEN CHOOSE p \in DOMAIN game.players : game.players[p].playedCard # NoCard
    ELSE game.firstToReveal

\* At most one card lies on the table, and then the turn is the other player's.
TurnAtWaitingPlayer(game) ==
    \A p \in DOMAIN game.players :
        game.players[p].playedCard # NoCard
        => /\ game.firstToReveal = FindOther(PlayerIds(game), p)
           /\ game.players[game.firstToReveal].playedCard = NoCard

\* C10: an accepted play is the actor's only card of the trick; when it does
\* not complete the trick the turn moves to the other player, who has not
\* played in this trick; and the trick is resolved by exactly the play after
\* which the turn would return to the trick leader.
C10_TurnAdvance ==
    [][ /\ \A r \in RoomCodes :
            r \in DOMAIN gameStates' => TurnAtWaitingPlayer(gameStates'[r])
        /\ \A s \in Sockets, r \in RoomCodes :
            \A claim \in PlayClaims(r, s) :
                (AcceptedPlay(s, r, claim[1], claim[2]) /\ r \in DOMAIN gameStates')
                => LET game == gameStates[r]
                       after == gameStates'[r]
                       next == FindOther(PlayerIds(game), s)
                       resolved == after.players[s].playedCard = NoCard
                   IN  /\ game.players[s].playedCard = NoCard
                       /\ resolved <=> (next = TrickLeader(game))
                       /\ resolved
                          => \A p \in DOMAIN after.players :
                                after.players[p].playedCard = NoCard
                       /\ ~resolved
                          => /\ after.firstToReveal = next
                             /\ after.players[next].playedCard = NoCard
                             /\ after.players[s].playedCard = claim[1]
      ]_vars

\* In the second trick of a round the leader has played and the turn is the
\* other player's.
C10_Witness ==
    \E r \in RoomCodes, s \in Sockets :
        /\ Dealt(r)
        /\ IsPlayer(r, s)
        /\ gameStates[r].players[s].playedCard # NoCard
        /\ gameStates[r].players[s].revealedCardsCount = 2
        /\ gameStates[r].firstToReveal = FindOther(PlayerIds(gameStates[r]), s)
        /\ gameStates[r].players[gameStates[r].firstToReveal].revealedCardsCount = 1

\* C11: for an integer bid the scoring adds 10 + bid to the cumulative score
\* when the trick count equals the bid and subtracts |tricks - bid| otherwise,
\* for bids above the round size and below 0 too; the amount added depends on
\* the trick count and the bid alone, not on the score it is added to.
C11_ScoringDelta ==
    (scoring.done /\ scoring.bet # NoBet)
    => scoring.result - scoring.score =
            IF scoring.wins = scoring.bet[1]
            THEN 10 + scoring.bet[1]
            ELSE -Abs(scoring.wins - scoring.bet[1])

\* A bid above every possible trick count was scored.
C11_Witness ==
    /\ scoring.done
    /\ scoring.bet # NoBet
    /\ scoring.bet[1] > MaxWins
    /\ scoring.result = scoring.score - (scoring.bet[1] - scoring.wins)

\* A step that settles the round of room r: the trick that was resolved was
\* the round's last and the per-round counters were reset (lines 765-770).
SettlementStep(r) ==
    /\ Dealt(r)
    /\ r \in DOMAIN gameStates'
    /\ gameStates'[r].round = gameStates[r].round
    /\ \E p \in DOMAIN gameStates[r].players :
            gameStates[r].players[p].revealedCardsCount > 0
    /\ \A p \in DOMAIN gameStates'[r].players :
            gameStates'[r].players[p].revealedCardsCount = 0

\* The tricks p has won in the round a settlement step finishes: the count
\* before the last trick, plus that trick when p won it (line 703).
TricksAtSettlement(r, p) ==
    gameStates[r].players[p].currentRoundWins
    + (IF gameStates'[r].firstToReveal = p THEN 1 ELSE 0)

\* C12: settlement sets lastRoundWinner to the player with strictly the most
\* tricks of the round, and to none when the trick counts tie.
C12_RoundWinnerHasMostTricks ==
    [][\A r \in RoomCodes :
        SettlementStep(r)
        => LET ids == PlayerIds(gameStates[r])
               best == {p \in Range(ids) :
                            \A q \in Range(ids) \ {p} :
                                TricksAtSettlement(r, p) > TricksAtSettlement(r, q)}
           IN  gameStates'[r].lastRoundWinner =
                    IF best = {} THEN NoId ELSE CHOOSE p \in best : TRUE]_vars

RECURSIVE WinsOf(_, _)
WinsOf(game, ids) ==
    IF ids = <<>> THEN 0
    ELSE game.players[Head(ids)].currentRoundWins + WinsOf(game, Tail(ids))

TricksWonTotal(game) == WinsOf(game, PlayerIds(game))

\* The cards of p's hand that have not been played.
UnplayedCount(game, p) ==
    Cardinality({i \in DOMAIN game.players[p].hand : ~game.players[p].hand[i].played})

\* The hands shrink together: with no card on the table every player holds
\* the same number of unplayed cards, and a player whose card is on the table
\* holds one fewer than the other.
HandsShrinkTogether(game) ==
    \A p \in DOMAIN game.players, q \in DOMAIN game.players :
        UnplayedCount(game, p) + (IF game.players[p].playedCard # NoCard THEN 1 ELSE 0)
        = UnplayedCount(game, q) + (IF game.players[q].playedCard # NoCard THEN 1 ELSE 0)

\* C14: a round is settled by the step that plays its last unplayed card,
\* which resolves the round's N-th trick, and by no other step: settlement
\* never leaves a dealt card unplayed, never happens twice in a round, and the
\* players' hands run out at the same trick.
C14_SettlementAtLastTrick ==
    [][\A r \in RoomCodes :
        /\ SettlementStep(r)
            => /\ SomeCardUnplayed(gameStates[r])
               /\ ~SomeCardUnplayed(gameStates'[r])
               /\ TricksWonTotal(gameStates[r]) = gameStates[r].round - 1
        /\ ( /\ Dealt(r)
             /\ r \in DOMAIN gameStates'
             /\ gameStates'[r].round = gameStates[r].round
             /\ SomeCardUnplayed(gameStates[r])
             /\ ~SomeCardUnplayed(gameStates'[r]) )
            => SettlementStep(r)
        /\ r \in DOMAIN gameStates' => HandsShrinkTogether(gameStates'[r])]_vars

\* Round MaxRound has been settled: every card is played, the counters are
\* reset and the settlement has recorded its winner.
C14_Witness ==
    \E r \in RoomCodes :
        /\ Dealt(r)
        /\ gameStates[r].round = MaxRound
        /\ ~SomeCardUnplayed(gameStates[r])
        /\ gameStates[r].lastRoundWinner # NoId
        /\ \A p \in DOMAIN gameStates[r].players :
            gameStates[r].players[p].revealedCardsCount = 0

\* The tricks resolved so far in the round of a game: the cards a player has
\* played, less the one that still lies on the table.
TricksResolved(game, p) ==
    Len(game.players[p].hand) - UnplayedCount(game, p)
    - (IF game.players[p].playedCard # NoCard THEN 1 ELSE 0)

C16_RoundCap ==
    [][\A r \in RoomCodes :
        /\ r \in DOMAIN gameStates' => gameStates'[r].round <= RoundCap
        /\ DealStep(r) => gameStates'[r].round = gameStates[r].round + 1]_vars

\* The delta the claims give for a trick count and a stored bet.
ClaimedDelta(wins, bet) ==
    IF bet # NoBet /\ wins = bet[1] THEN 10 + bet[1] ELSE -Abs(wins - ToNumber(bet))

\* A step that plays the last unplayed card of the round of room r.
LastCardStep(r) ==
    /\ Dealt(r)
    /\ SomeCardUnplayed(gameStates[r])
    /\ \/ r \notin DOMAIN gameStates'
       \/ /\ gameStates'[r].round = gameStates[r].round
          /\ ~SomeCardUnplayed(gameStates'[r])

HasGameOver(events) == \E i \in DOMAIN events : events[i].event = "gameOver"

\* C17: the step that settles round RoundCap broadcasts gameOver with each
\* player's score after that round's delta and removes the room's game from
\* gameStates; a step that settles a lower round keeps the game and sends no
\* gameOver, and no other step sends gameOver or removes the game.
C17_GameOverAtRoundCap ==
    [][\A r \in RoomCodes :
        /\ (LastCardStep(r) /\ gameStates[r].round = RoundCap)
            => LET game == gameStates[r]
                   last == emitted'[Len(emitted')]
               IN  /\ r \notin DOMAIN gameStates'
                   /\ Len(emitted') = 4
                   /\ emitted'[1].event = "handResult"
                   /\ last.event = "gameOver"
                   /\ DOMAIN last.finalScores = DOMAIN game.players
                   /\ \A p \in DOMAIN game.players :
                        last.finalScores[p] =
                            game.players[p].score
                            + ClaimedDelta(WinsIn(emitted'[1], p), game.players[p].bet)
        /\ (LastCardStep(r) /\ gameStates[r].round < RoundCap)
            => /\ r \in DOMAIN gameStates'
               /\ ~HasGameOver(emitted')
        /\ (HasGame(r) /\ ~LastCardStep(r))
            => /\ r \in DOMAIN gameStates'
               /\ ~HasGameOver(emitted')]_vars

\* Round RoundCap has just been settled: gameOver was broadcast after the
\* round's roundFinished and the room has no game.
C17_Witness ==
    \E r \in RoomCodes :
        /\ ~HasGame(r)
        /\ Len(emitted) = 4
        /\ emitted[2].event = "roundFinished"
        /\ emitted[2].currentRound = RoundCap
        /\ emitted[4].event = "gameOver"
        /\ \E p \in DOMAIN emitted[4].finalScores : emitted[4].finalScores[p] # 0

\* The handler answered s with a rejection for a missing game and changed no game.
RejectedForNoGame(s) ==
    /\ gameStates' = gameStates
    /\ \E reason \in {"StateDesync", "RoomNotFound"} :
            emitted' = <<GameError(s, reason)>>

\* C18: a playerBet, a playerCardPlayed or a startRoundRequest for a room that
\* has no game in gameStates is answered with a StateDesync or RoomNotFound
\* rejection and neither creates nor changes a game.
C18_NoGameActionsRejected ==
    [][\A s \in Sockets, r \in RoomCodes :
        ~HasGame(r)
        => /\ \A b \in Bets : PlayerBet(s, r, b) => RejectedForNoGame(s)
           /\ \A claim \in PlayClaims(r, s) :
                PlayerCardPlayed(s, r, claim[1], claim[2]) => RejectedForNoGame(s)
           /\ (sockRoom[s] = r /\ StartRoundRequest(s)) => RejectedForNoGame(s)]_vars

\* The round of room r can go on: the player whose turn it is holds an
\* unplayed card, which the handler accepts when that player names it.
RoundCanProceed(r) ==
    (Dealt(r) /\ SomeCardUnplayed(gameStates[r]))
    => \E claim \in PlayClaims(r, gameStates[r].firstToReveal) :
            PlayVerdict(r, gameStates[r].firstToReveal, claim[1], claim[2]) = "accepted"

\* C19: a playerCardPlayed of a player of the round that names a card other
\* than the one stored at the claimed index is answered with IllegalCard, and
\* one that names a card already played with AlreadyPlayed; either leaves
\* every game unchanged, and the round can still go on afterwards.
C19_RejectedPlaysChangeNothing ==
    [][\A s \in Sockets, r \in RoomCodes :
        \A claim \in PlayClaims(r, s) :
            ( /\ Dealt(r)
              /\ IsPlayer(r, s)
              /\ PlayerCardPlayed(s, r, claim[1], claim[2]) )
            => /\ ~NamesOwnCard(r, s, claim[1], claim[2])
                    => /\ emitted' = <<GameError(s, "IllegalCard")>>
                       /\ gameStates' = gameStates
                       /\ RoundCanProceed(r)'
               /\ ( /\ NamesOwnCard(r, s, claim[1], claim[2])
                    /\ CardAt(gameStates[r].players[s].hand, claim[2]).played )
                    => /\ emitted' = <<GameError(s, "AlreadyPlayed")>>
                       /\ gameStates' = gameStates
                       /\ RoundCanProceed(r)']_vars

\* The player whose turn it is has named a card it had already played and was
\* told AlreadyPlayed; the round is still being played.
C19_Witness ==
    \E r \in RoomCodes, s \in Sockets :
        /\ Dealt(r)
        /\ gameStates[r].round = MaxRound
        /\ IsPlayer(r, s)
        /\ gameStates[r].firstToReveal = s
        /\ emitted = <<GameError(s, "AlreadyPlayed")>>
        /\ SomeCardUnplayed(gameStates[r])
        /\ \E i \in DOMAIN gameStates[r].players[s].hand :
                gameStates[r].players[s].hand[i].played

\* The client of s, whose timer is pending, connects again in this step, be it
\* under the id s or under a new one.
ComesBack(s) ==
    /\ s \in DOMAIN disconnectionTimers
    /\ \/ s \in connected' \ connected
       \/ s \in rebound' \ rebound

\* The timer of s runs out in this step.
Expires(s) ==
    /\ s \in DOMAIN disconnectionTimers
    /\ s \notin DOMAIN disconnectionTimers'
    /\ connected' = connected

\* C20: when a player of a dealt round has disconnected and its client connects
\* again while the 60 s timer is pending, the timer is cancelled and never
\* runs out, the room's players and the RoundState are left as they were, and
\* no opponentDisconnected is sent for that disconnect.
C20_ReconnectWithinGrace ==
    [][\A s \in Sockets :
        /\ ( /\ ComesBack(s)
             /\ Dealt(disconnectionTimers[s])
             /\ IsPlayer(disconnectionTimers[s], s) )
            => /\ s \notin DOMAIN disconnectionTimers'
               /\ matches' = matches
               /\ gameStates' = gameStates
        /\ ( /\ Expires(s)
             /\ Dealt(disconnectionTimers[s])
             /\ IsPlayer(disconnectionTimers[s], s) )
            => /\ s \notin rebound
               /\ ~ \E e \in Range(emitted') : e.event = "opponentDisconnected"]_vars

\* The members of room r other than s.
OtherMembers(r, s) == Range(RoomPlayers(r)) \ {s}

\* C21: when the timer of a disconnected member runs out, the member is
\* removed from the players of its room, every remaining member is sent
\* opponentDisconnected, the member's document is removed from onlinePlayers,
\* and if no member remains the room and its game are deleted.
C21_GraceExpiry ==
    [][\A s \in Sockets :
        Expires(s) =>
            \A r \in {disconnectionTimers[s]} :
                /\ s \notin Range(RoomPlayers(r))'
                /\ \A m \in OtherMembers(r, s) :
                        \E e \in Range(emitted') :
                            e.event = "opponentDisconnected" /\ e.to = m
                /\ s \notin onlinePlayers'
                /\ OtherMembers(r, s) = {}
                        => /\ findOne(r)' = 0
                           /\ r \notin DOMAIN gameStates']_vars

\* s is one of the players of some room document.
IsMember(s) == \E i \in DOMAIN matches : s \in Range(matches[i].players)

\* A room document none of whose players has a live connection.
AbandonedRoom == \E i \in DOMAIN matches : Range(matches[i].players) \cap connected = {}

\* C22: a member of a room whose connection has dropped for good is
\* eventually removed from the room's players, whether or not a round had
\* been dealt, and a room none of whose members is connected is eventually
\* deleted.
C22_RoomLifecycle ==
    /\ \A s \in Sockets : (IsMember(s) /\ s \notin connected) ~> ~IsMember(s)
    /\ AbandonedRoom ~> ~AbandonedRoom

\* The number of setTimeout callbacks of s that are still to run.
PendingTimers(s) == Cardinality({i \in DOMAIN timeouts : timeouts[i].id = s})

JoinAttempt(s, r) == InNoRoom(s) /\ JoinRoomRead(s, r)

\* C24: joinRoom for a code no room has is answered with the room-not-found
\* failure, joinRoom for a room that has roomSize players with the room-full
\* failure, neither adds a player; and however the parts of concurrent
\* joinRoom calls interleave, a room never has more players than its
\* roomSize.
C24_RoomCapacity ==
    /\ [](\A i \in DOMAIN matches :
            matches[i].roomSize # NoSize
                => Len(matches[i].players) <= matches[i].roomSize)
    /\ [][\A s \in Sockets, r \in LobbyCodes :
            JoinAttempt(s, r) =>
                /\ findOne(r) = 0
                        => /\ emitted' = <<Callback(s, FALSE, "Stanza non trovata")>>
                           /\ UNCHANGED <<matches, pendingJoins>>
                /\ ( /\ findOne(r) # 0
                     /\ matches[findOne(r)].roomSize # NoSize
                     /\ Len(RoomPlayers(r)) >= matches[findOne(r)].roomSize )
                        => /\ emitted' = <<Callback(s, FALSE, "Stanza piena")>>
                           /\ UNCHANGED <<matches, pendingJoins>>]_vars

\* C25: no two room documents have the same roomCode, whatever rooms are
\* created.
C25_RoomCodesUnique ==
    \A i \in DOMAIN matches, j \in DOMAIN matches :
        i # j => matches[i].roomCode # matches[j].roomCode

\* The step is a createRoom of s with this roomSize and this drawn code.
CreateAttempt(s, size, r) ==
    /\ Len(matches) < MaxRooms
    /\ InNoRoom(s)
    /\ CreateRoom(s, size, r)

\* C26: createRoom with a roomSize below MinRoomPlayers, or with none, is
\* answered with a failure and adds no room document.
C26_CapacityChecked ==
    [][\A s \in Sockets, size \in LobbySizes, r \in LobbyCodes :
        (size < MinRoomPlayers /\ CreateAttempt(s, size, r))
            => /\ matches' = matches
               /\ \E e \in Range(emitted') :
                    e.event = "callback" /\ e.to = s /\ ~e.success]_vars

\* C27: at every deal the players of the game are the players of the room:
\* every member is dealt a hand, and nobody who is not a member is a player.
C27_DealtPlayersAreMembers ==
    [][\A r \in RoomCodes :
        DealStep(r) =>
            /\ DOMAIN gameStates'[r].players = Range(RoomPlayers(r))
            /\ \A p \in Range(RoomPlayers(r)) :
                    Len(gameStates'[r].players[p].hand) = gameStates'[r].round]_vars

\* The names of the events in a sequence of events.
EventNames(events) == {events[i].event : i \in DOMAIN events}

\* The step completes a suspended deal of room r.
DealResumes(r) == pendingDeals'[r] < pendingDeals[r]

\* C28: once an action on a room is accepted, its events are emitted and its
\* change of the game is complete before another action on the room is
\* handled: when a startRoundRequest has brought the ready counter to the
\* threshold, the next step on the room is its deal; the accepted play that
\* completes a trick emits handResult with nextHand or roundFinished in the
\* same step.
C28_PerRoomOrdering ==
    [][\A r \in RoomCodes :
        /\ pendingDeals[r] > 0 => DealResumes(r)
        /\ \A s \in Sockets :
            \A claim \in PlayClaims(r, s) :
                ( /\ AcceptedPlay(s, r, claim[1], claim[2])
                  /\ gameStates[r].players[FindOther(PlayerIds(gameStates[r]), s)].playedCard
                        # NoCard )
                => /\ "handResult" \in EventNames(emitted')
                   /\ \/ "nextHand" \in EventNames(emitted')
                      \/ "roundFinished" \in EventNames(emitted')]_vars

\* The step is the startRoundRequest that brings the ready counter of room r
\* to the threshold and resets it.
ThresholdReached(r) ==
    /\ HasGame(r)
    /\ gameStates[r].nextRoundReadyCount = ReadyThreshold - 1
    /\ r \in DOMAIN gameStates'
    /\ gameStates'[r].nextRoundReadyCount = 0
    /\ \E s \in Sockets : sockRoom[s] = r /\ StartRoundRequest(s)

\* C29: a handler checks and changes the game in one step, with nothing else
\* of the room handled in between: the startRoundRequest that brings the
\* ready counter to the threshold resets it and deals the round in the same
\* step, and no deal is ever left suspended.
C29_NoSuspensionInHandlers ==
    /\ [](\A r \in RoomCodes : pendingDeals[r] = 0 /\ detachedDeals[r] = <<>>)
    /\ [][\A r \in RoomCodes :
            ( /\ ThresholdReached(r)
              /\ Len(RoomPlayers(r)) >= MinRoomPlayers )
            => gameStates'[r].round = gameStates[r].round + 1]_vars

\* A gameError is among the events.
HasGameError(events) == \E i \in DOMAIN events : events[i].event = "gameError"

\* What the save of this step leaves on the room's document.
SavedAs(r, game) ==
    snapshots' = IF gatewayUp /\ findOne(r) # 0 THEN Put(snapshots, r, game) ELSE snapshots

\* C30: a save that fails neither blocks nor undoes anything.  Whether the
\* database is failing or not, a play that passes the checks and a
\* startRoundRequest can be handled; the accepted play leaves the game that
\* AfterAcceptedCard computes and emits its events, the counted
\* startRoundRequest leaves the game with its counter raised, the deal leaves
\* the dealt game, none of them emits a gameError, and only the saved copy
\* depends on the database.
C30_SaveIsBestEffort ==
    /\ [](\A s \in Sockets, r \in RoomCodes :
            /\ \A claim \in NextCardClaim(r, s) :
                    ENABLED PlayerCardPlayed(s, r, claim[1], claim[2])
            /\ (sockRoom[s] = r /\ HasGame(r) /\ gameStates[r].nextRoundReadyCount = 0)
                    => ENABLED StartRoundRequestUpTo(s, MaxRound, LongPendingLimit))
    /\ [][\A s \in Sockets, r \in RoomCodes :
            /\ \A claim \in NextCardClaim(r, s) :
                    ( /\ PlayVerdict(r, s, claim[1], claim[2]) = "accepted"
                      /\ PlayerCardPlayed(s, r, claim[1], claim[2]) )
                    => LET after == AfterAcceptedCard(r,
                                        AcceptCard(gameStates[r], s, claim[1], claim[2]),
                                        s, claim[1], claim[2])
                       IN  /\ gameStates' = IF after.deleted THEN Delete(gameStates, r)
                                            ELSE [gameStates EXCEPT ![r] = after.game]
                           /\ emitted' = after.events
                           /\ ~HasGameError(emitted')
                           /\ SavedAs(r, after.game)
            /\ ( /\ sockRoom[s] = r
                 /\ HasGame(r)
                 /\ gameStates[r].nextRoundReadyCount = 0
                 /\ StartRoundRequestUpTo(s, MaxRound, LongPendingLimit) )
                    => /\ gameStates' = [gameStates EXCEPT ![r] = ReadyCounted(r)]
                       /\ ~HasGameError(emitted')
                       /\ SavedAs(r, ReadyCounted(r))
            /\ DealStep(r)
                    => /\ "startRoundData" \in EventNames(emitted')
                       /\ SavedAs(r, gameStates'[r])]_vars

\* The database is failing, a trick has just been resolved, and the copy on
\* the room's document is not the game in memory.
C30_Witness ==
    \E r \in RoomCodes :
        /\ ~gatewayUp
        /\ HasGame(r)
        /\ "handResult" \in EventNames(emitted)
        /\ r \in DOMAIN snapshots
        /\ snapshots[r] # gameStates[r]

\* C31: in a game of two clients that follow the protocol, a dealt round
\* that is not finished always has a play its handler accepts, every round
\* that is dealt is eventually played to its end, and the game eventually
\* ends with gameOver.
C31_GameTerminates ==
    /\ [](\A r \in RoomCodes : RoundCanProceed(r))
    /\ \A r \in RoomCodes, k \in 1 .. RoundCap :
            (RoundOpen(r) /\ gameStates[r].round = k)
                ~> (~RoundOpen(r) \/ gameStates[r].round # k)
    /\ <>HasGameOver(emitted)

\* Round RoundCap was played to its end by the two clients: gameOver was sent
\* and the game is gone.
C31_Witness ==
    \E r \in RoomCodes :
        /\ Len(RoomPlayers(r)) = ReadyThreshold
        /\ ~HasGame(r)
        /\ HasGameOver(emitted)
        /\ pendingDeals[r] = 0

\* The bothBetsPlaced a player of room r receives when every bet is set.
BothBetsFor(r, p, o) ==
    [event |-> "bothBetsPlaced", to |-> p,
     yourBet |-> gameStates[r].players[p].bet,
     opponentBet |-> gameStates[r].players[o].bet]

\* C32: a playerBet of a player of the game that lands while the other
\* player's bet is unset sends opponentBetPlaced with that bet to the other
\* player and nothing else; one that lands when the other bet is set sends
\* bothBetsPlaced to each player, with the player's own bet and the
\* opponent's bet as the game then stores them.
C32_BidBroadcast ==
    [][\A s \in Sockets, r \in RoomCodes, b \in Bets :
        (IsPlayer(r, s) /\ PlayerBet(s, r, b)) =>
            \A o \in {FindOther(PlayerIds(gameStates[r]), s)} :
                /\ o # NoId
                /\ gameStates'[r].players[s].bet = <<b>>
                /\ gameStates'[r].players[o].bet = gameStates[r].players[o].bet
                /\ IF gameStates[r].players[o].bet = NoBet
                   THEN emitted' = <<[event |-> "opponentBetPlaced", to |-> o,
                                      opponentBet |-> <<b>>]>>
                   ELSE /\ Len(emitted') = Len(PlayerIds(gameStates[r]))
                        /\ \E i, j \in DOMAIN emitted' :
                             /\ emitted'[i] = BothBetsFor(r, s, o)'
                             /\ emitted'[j] = BothBetsFor(r, o, s)']_vars

\* Both bets are set to different values and each player has received
\* bothBetsPlaced.
C32_Witness ==
    \E i, j \in DOMAIN emitted :
        /\ emitted[i].event = "bothBetsPlaced"
        /\ emitted[j].event = "bothBetsPlaced"
        /\ emitted[i].to # emitted[j].to
        /\ emitted[i].yourBet # emitted[i].opponentBet
        /\ emitted[i].yourBet = emitted[j].opponentBet

PlayedCount(game, p) ==
    Cardinality({i \in DOMAIN game.players[p].hand : game.players[p].hand[i].played})

\* Within a round the hands keep their cards, a played flag never goes back
\* to false, it goes from false to true only in the accepted play of that
\* card by its holder, and the round is settled only with every flag true.
FlagsFlipOnce ==
    [][\A r \in RoomCodes :
        (Dealt(r) /\ r \in DOMAIN gameStates'
                  /\ gameStates'[r].round = gameStates[r].round) =>
            /\ DOMAIN gameStates'[r].players = DOMAIN gameStates[r].players
            /\ \A p \in DOMAIN gameStates[r].players :
                 /\ DOMAIN gameStates'[r].players[p].hand
                        = DOMAIN gameStates[r].players[p].hand
                 /\ \A i \in DOMAIN gameStates[r].players[p].hand :
                      /\ CardOf(gameStates'[r].players[p].hand[i])
                            = CardOf(gameStates[r].players[p].hand[i])
                      /\ gameStates[r].players[p].hand[i].played
                            => gameStates'[r].players[p].hand[i].played
                      /\ ( /\ ~gameStates[r].players[p].hand[i].played
                           /\ gameStates'[r].players[p].hand[i].played )
                            => AcceptedPlay(p, r, CardOf(gameStates[r].players[p].hand[i]),
                                            i - 1)
                      /\ SettlementStep(r) => gameStates'[r].players[p].hand[i].played]_vars

\* C34 (as claimed): the played flags flip once, and in every state of a
\* dealt round a player's revealedCardsCount is the number of cards of the
\* hand whose played flag is true.
C34_CounterAlwaysCountsFlags ==
    /\ FlagsFlipOnce
    /\ [](\A r \in RoomCodes : Dealt(r) =>
            \A p \in DOMAIN gameStates[r].players :
                gameStates[r].players[p].revealedCardsCount
                    = PlayedCount(gameStates[r], p))

\* C34 (amended): the played flags flip once, and a player's
\* revealedCardsCount is the number of played cards of the hand as long as
\* the round has an unplayed card; once the round is settled the counter is
\* zero while every flag stays true until the next deal.
C34_CounterCountsFlagsUntilSettlement ==
    /\ FlagsFlipOnce
    /\ [](\A r \in RoomCodes : Dealt(r) =>
            \A p \in DOMAIN gameStates[r].players :
                gameStates[r].players[p].revealedCardsCount
                    = IF SomeCardUnplayed(gameStates[r])
                      THEN PlayedCount(gameStates[r], p)
                      ELSE 0)

\* In a round of two cards a player has played one card and holds the other.
C34_Witness ==
    \E r \in RoomCodes : Dealt(r) /\ gameStates[r].round = 2 /\
        \E p \in DOMAIN gameStates[r].players :
            /\ PlayedCount(gameStates[r], p) = 1
            /\ gameStates[r].players[p].revealedCardsCount = 1
            /\ UnplayedCount(gameStates[r], p) = 1

\* C35: a player's score changes only in the step that settles a round, and
\* there by that round's delta for the tricks won and the stored bet; every
\* other step (startRoundRequest, the deal of the next round, playerBet,
\* accepted and rejected plays, tricks that do not end the round) leaves it
\* as it is, and a player who enters a game starts at 0.  So the score after
\* the settlement of round k is the sum of the deltas of the rounds settled
\* so far, whatever its sign.
C35_ScoresChangeAtSettlementOnly ==
    [][\A r \in RoomCodes :
        r \in DOMAIN gameStates' =>
            \A p \in DOMAIN gameStates'[r].players :
                IF IsPlayer(r, p)
                THEN gameStates'[r].players[p].score =
                        IF SettlementStep(r)
                        THEN gameStates[r].players[p].score
                             + ClaimedDelta(TricksAtSettlement(r, p),
                                            gameStates[r].players[p].bet)
                        ELSE gameStates[r].players[p].score
                ELSE gameStates'[r].players[p].score = 0]_vars

\* Round 2 is settled and a player's two deltas add up to a negative score.
C35_Witness ==
    \E r \in RoomCodes : Dealt(r) /\
        /\ gameStates[r].round = 2
        /\ ~SomeCardUnplayed(gameStates[r])
        /\ \E p \in DOMAIN gameStates[r].players :
             gameStates[r].players[p].score = -2

\* C36: in the state right after the step that plays the last card of a
\* round below RoundCap, every player's bet is unset and every player's
\* currentRoundWins and revealedCardsCount are 0, the round number is the
\* one of the round just played, and each score is the score before the
\* step plus the round's delta.
C36_SettlementReset ==
    [][\A r \in RoomCodes :
        (LastCardStep(r) /\ r \in DOMAIN gameStates') =>
            /\ gameStates'[r].round = gameStates[r].round
            /\ DOMAIN gameStates'[r].players = DOMAIN gameStates[r].players
            /\ \A p \in DOMAIN gameStates[r].players :
                 /\ gameStates'[r].players[p].bet = NoBet
                 /\ gameStates'[r].players[p].currentRoundWins = 0
                 /\ gameStates'[r].players[p].revealedCardsCount = 0
                 /\ gameStates'[r].players[p].playedCard = NoCard
                 /\ gameStates'[r].players[p].score =
                        gameStates[r].players[p].score
                        + ClaimedDelta(TricksAtSettlement(r, p),
                                       gameStates[r].players[p].bet)]_vars

\* A round was settled: a player who hit the bet holds the bonus, nothing is
\* left to play and bets and counters are reset.
C36_Witness ==
    \E r \in RoomCodes : Dealt(r) /\
        /\ ~SomeCardUnplayed(gameStates[r])
        /\ \A p \in DOMAIN gameStates[r].players :
             /\ gameStates[r].players[p].bet = NoBet
             /\ gameStates[r].players[p].currentRoundWins = 0
             /\ gameStates[r].players[p].revealedCardsCount = 0
        /\ \E p \in DOMAIN gameStates[r].players : gameStates[r].players[p].score >= 10

\* C37: in every state with a dealt round that has an unplayed card,
\* game.firstToReveal is one of the players of that game, also in a round
\* dealt after a member was removed by its timer and another client joined.
C37_TurnPlayerIsAPlayer ==
    \A r \in RoomCodes :
        RoundOpen(r) => gameStates[r].firstToReveal \in DOMAIN gameStates[r].players

\* C38: when the timer of s runs out and the room keeps other members, the
\* game of the room, if there is one, no longer has s among its players nor
\* as game.firstToReveal.
C38_PurgedLeavesTheRound ==
    [][\A s \in Sockets :
        TimerExpires(s) =>
            \A r \in {timeouts[FirstTimeout(s)].roomCode} :
                (\E i \in DOMAIN matches' :
                    matches'[i].roomCode = r /\ matches'[i].players # <<>>)
                => (r \in DOMAIN gameStates' =>
                        /\ s \notin DOMAIN gameStates'[r].players
                        /\ gameStates'[r].firstToReveal # s)]_vars

PendingInvitationIds ==
    {pendingInvitations[i].timeoutId : i \in DOMAIN pendingInvitations}

\* An inviter has at most one entry, the timeouts still to fire are those of
\* the pending invitations, a pending invitation has not ended, and one that
\* is no longer pending was ended once, in one of the ways of endings.
ResolvedOnce(endings) ==
    /\ \A i, j \in DOMAIN pendingInvitations :
            pendingInvitations[i].inviterSocketId = pendingInvitations[j].inviterSocketId
            => i = j
    /\ DOMAIN invitationTimeouts = PendingInvitationIds
    /\ \A id \in DOMAIN invitationLog :
            IF id \in PendingInvitationIds
            THEN invitationLog[id] = <<>>
            ELSE Len(invitationLog[id]) = 1 /\ invitationLog[id][1] \in endings

\* C39 (as claimed): every invitation that was pending ended exactly once,
\* accepted, declined, expired or cancelled by a disconnect, and no timeout
\* of an ended invitation is left to fire.
C39_ResolvedInFourWays ==
    ResolvedOnce({"accepted", "declined", "expired", "cancelled"})

\* C39 (amended): as claimed, with a fifth way to end: the inviter's next
\* invitation replaces the pending one.
C39_ResolvedOnceOrReplaced ==
    ResolvedOnce({"accepted", "declined", "expired", "cancelled", "replaced"})

\* Two invitations of one inviter have ended: the first was replaced by the
\* second, the second ran out and the inviter was sent invitationExpired.
C39_Witness ==
    /\ \E a, b \in DOMAIN invitationLog :
        /\ invitationLog[a] = <<"replaced">>
        /\ invitationLog[b] = <<"expired">>
    /\ \E i \in DOMAIN emitted : emitted[i].event = "invitationExpired"
    /\ pendingInvitations = <<>>

====
